---- MODULE Spec2Model ----
(***************************************************************************)
(* Audio quality checker of the ankaido repository                         *)
(* (src/audio/audio_checker.py): check_audio_file, the response parser,    *)
(* batch_check_audio_files and get_quality_summary; and its generation     *)
(* scripts (gen_audio.py, genaudio_outetts.py, audio_utils.py): the word   *)
(* sanitizers, the skip-if-exists test, the exit status, the user          *)
(* interrupt and convert_audio; and check_for_duplicates of                *)
(* src/wordlists/wordlists.py.                                             *)
(*                                                                         *)
(* A Python str is modelled as a sequence of one-character strings, so     *)
(* that substring search, lower(), strip() and concatenation are computed. *)
(* A float with two decimals is modelled as an integer number of           *)
(* hundredths (0.9 is 90); a quotient of two integers is an exact          *)
(* fraction <<numerator, denominator>> in lowest terms.  A character       *)
(* outside ASCII is a string naming it ("a_ogonek", "Z_CARON").            *)
(***************************************************************************)
EXTENDS Integers, Sequences, FiniteSets, TLC

VARIABLES
    checker,      \* the AudioChecker object: api_key, model, client
    fs,           \* the audio files on disk: path -> file record
    audio_files,  \* the argument of batch_check_audio_files: <<path, word>> items
    results,      \* the list `results` of batch_check_audio_files
    idx,          \* 1-based position of the for loop of batch_check_audio_files
    pc,           \* "loop", "remote" (request outstanding), "done", "summarized"
    raised,       \* per item: the exception check_audio_file raised, or NoExc
    requests,     \* the requests sent to the remote service so far, in order
    responses,    \* what the remote call did for each request, in order
    summary,      \* the value get_quality_summary returned, or NoSummary
    given_word,   \* the argument given to the word sanitizers
    sanitized,    \* what each sanitizer returned for it, or None before the call
    args,         \* a generation script's command line and environment
    disk,         \* the output files: path -> content, for the paths that exist
    disk0,        \* disk when the script started
    gen_pc,       \* "main", "loop", "exit" of a generation script ("idle": none runs)
    word_i,       \* 1-based position of the loop over the words (lines, entries)
    voice_i,      \* 1-based position of the loop over the voices
    success_count,   \* success_count of generate_multi_voice_audio, of the batch
    total_success,   \* total_success of main
    total_attempts,  \* total_attempts of main
    exit_status,  \* the status the process exited with, or None while it runs
    calls,        \* one record per generation call made so far, in order
    interrupt,    \* None, or the KeyboardInterrupt raised: where, and whether caught
    all_words,    \* the word tables of wordlists.py: corpora of groups of word pairs
    duplicates    \* what check_for_duplicates returned, or None before the call

checker_vars ==
    <<checker, fs, audio_files, results, idx, pc, raised, requests, responses, summary>>

sanitizer_vars == <<given_word, sanitized>>

generation_vars ==
    <<args, disk, disk0, gen_pc, word_i, voice_i, success_count, total_success,
      total_attempts, exit_status, calls, interrupt>>

wordlist_vars == <<all_words, duplicates>>

vars == <<checker_vars, sanitizer_vars, generation_vars, wordlist_vars>>

-----------------------------------------------------------------------------
(* String literals of the source, as character sequences.                   *)

s_is_word_correct ==
    <<"i","s","_","w","o","r","d","_","c","o","r","r","e","c","t">>
s_confidence_score ==
    <<"c","o","n","f","i","d","e","n","c","e","_","s","c","o","r","e">>
s_transcript ==
    <<"t","r","a","n","s","c","r","i","p","t">>
s_detected_issues ==
    <<"d","e","t","e","c","t","e","d","_","i","s","s","u","e","s">>
s_detailed_feedback ==
    <<"d","e","t","a","i","l","e","d","_","f","e","e","d","b","a","c","k">>
s_suggestions ==
    <<"s","u","g","g","e","s","t","i","o","n","s">>
s_expected_word ==
    <<"e","x","p","e","c","t","e","d","_","w","o","r","d">>
AUDIBLE_BREATH ==
    <<"a","u","d","i","b","l","e","_","b","r","e","a","t","h">>
BACKGROUND_NOISE ==
    <<"b","a","c","k","g","r","o","u","n","d","_","n","o","i","s","e">>
MOUTH_SOUNDS ==
    <<"m","o","u","t","h","_","s","o","u","n","d","s">>
DISTORTION ==
    <<"d","i","s","t","o","r","t","i","o","n">>
VOLUME_INCONSISTENCY ==
    <<"v","o","l","u","m","e","_","i","n","c","o","n","s","i","s","t","e","n","c","y">>
PRONUNCIATION_ERROR ==
    <<"p","r","o","n","u","n","c","i","a","t","i","o","n","_","e","r","r","o","r">>
WORD_MISMATCH ==
    <<"w","o","r","d","_","m","i","s","m","a","t","c","h">>
UNCLEAR_SPEECH ==
    <<"u","n","c","l","e","a","r","_","s","p","e","e","c","h">>
kw_correct ==
    <<"c","o","r","r","e","c","t">>
kw_incorrect ==
    <<"i","n","c","o","r","r","e","c","t">>
kw_breath ==
    <<"b","r","e","a","t","h">>
kw_noise ==
    <<"n","o","i","s","e">>
kw_mouth ==
    <<"m","o","u","t","h">>
kw_smack ==
    <<"s","m","a","c","k">>
kw_distort ==
    <<"d","i","s","t","o","r","t">>
kw_unclear ==
    <<"u","n","c","l","e","a","r">>
kw_mumbl ==
    <<"m","u","m","b","l">>
msg_not_found ==
    <<"A","u","d","i","o"," ","f","i","l","e"," ","n","o","t"," ","f","o","u","n","d",":"," ">>
msg_too_large ==
    <<"A","u","d","i","o"," ","f","i","l","e"," ","t","o","o"," ","l","a","r","g","e",":"," ">>
msg_mb_max ==
    <<"M","B"," ","(","m","a","x",":"," ">>
msg_mb ==
    <<"M","B",")">>
msg_error_analyzing_audio ==
    <<"E","r","r","o","r"," ","a","n","a","l","y","z","i","n","g"," ","a","u","d","i","o",":"," ">>
msg_error_analyzing_file ==
    <<"E","r","r","o","r"," ","a","n","a","l","y","z","i","n","g"," ","f","i","l","e",":"," ">>
msg_check_exists ==
    <<"C","h","e","c","k"," ","i","f"," ","t","h","e"," ","a","u","d","i","o"," ","f","i","l","e"," ","e","x","i","s","t","s"," ","a","n","d"," ","i","s"," ","r","e","a","d","a","b","l","e",".">>
msg_review_feedback ==
    <<"P","l","e","a","s","e"," ","r","e","v","i","e","w"," ","t","h","e"," ","d","e","t","a","i","l","e","d"," ","f","e","e","d","b","a","c","k"," ","f","o","r"," ","i","m","p","r","o","v","e","m","e","n","t"," ","s","u","g","g","e","s","t","i","o","n","s",".">>
msg_no_results ==
    <<"N","o"," ","r","e","s","u","l","t","s"," ","t","o"," ","a","n","a","l","y","z","e">>
msg_index_error ==
    <<"l","i","s","t"," ","i","n","d","e","x"," ","o","u","t"," ","o","f"," ","r","a","n","g","e">>
msg_none_strip ==
    <<"'","N","o","n","e","T","y","p","e","'"," ","o","b","j","e","c","t"," ","h","a","s"," ","n","o"," ","a","t","t","r","i","b","u","t","e"," ","'","s","t","r","i","p","'">>
msg_none_iter ==
    <<"'","N","o","n","e","T","y","p","e","'"," ","o","b","j","e","c","t"," ","i","s"," ","n","o","t"," ","i","t","e","r","a","b","l","e">>
msg_permission ==
    <<"[","E","r","r","n","o"," ","1","3","]"," ","P","e","r","m","i","s","s","i","o","n"," ","d","e","n","i","e","d",":"," ">>
msg_connection ==
    <<"C","o","n","n","e","c","t","i","o","n"," ","e","r","r","o","r",".">>
msg_bad_key ==
    <<"I","n","c","o","r","r","e","c","t"," ","A","P","I"," ","k","e","y"," ","p","r","o","v","i","d","e","d">>
DEFAULT_LANGUAGE ==
    <<"L","i","t","h","u","a","n","i","a","n">>
fmt_mp3 ==
    <<"m","p","3">>
fmt_wav ==
    <<"w","a","v">>
fmt_m4a ==
    <<"m","4","a">>
fmt_ogg ==
    <<"o","g","g">>
path_a ==
    <<"c","a","c","h","e","/","a",".","W","A","V">>
path_b ==
    <<"c","a","c","h","e","/","b",".","f","l","a","c">>
word_duona ==
    <<"d","u","o","n","a">>
word_namas ==
    <<"n","a","m","a","s">>
tok_robotic_artifact ==
    <<"r","o","b","o","t","i","c","_","a","r","t","i","f","a","c","t">>
txt_clear ==
    <<"c","l","e","a","r">>
txt_retry ==
    <<"r","e","t","r","y">>
txt_true ==
    <<"t","r","u","e">>
txt_false ==
    <<"f","a","l","s","e">>
txt_null ==
    <<"n","u","l","l">>

word_result ==
    <<"R","e","s","u","l","t",":">>
word_done ==
    <<"D","o","n","e",".">>
word_Incorrect ==
    <<"I","n","c","o","r","r","e","c","t",",">>
word_Correct ==
    <<"C","o","r","r","e","c","t">>
word_breath ==
    <<"b","r","e","a","t","h">>
word_NOISE ==
    <<"N","O","I","S","E">>
word_Mouth ==
    <<"M","o","u","t","h">>
word_smacking ==
    <<"s","m","a","c","k","i","n","g">>
word_Distorted ==
    <<"D","i","s","t","o","r","t","e","d">>
word_unclear ==
    <<"u","n","c","l","e","a","r",".">>
word_Mumbled ==
    <<"M","u","m","b","l","e","d">>
word_fine ==
    <<"f","i","n","e">>

msg_no_json ==
    <<"N","o"," ","J","S","O","N"," ","f","o","u","n","d"," ","i","n"," ","r","e","s","p","o","n","s","e">>
msg_json_decode ==
    <<"E","x","p","e","c","t","i","n","g"," ","p","r","o","p","e","r","t","y"," ","n","a","m","e"," ","e","n","c","l","o","s","e","d"," ","i","n"," ","d","o","u","b","l","e"," ","q","u","o","t","e","s">>

-----------------------------------------------------------------------------
(* Python values.                                                           *)

\* Optional[T]: None is the empty sequence, a value v is <<v>>.
None == <<>>

Some(v) == <<v>>

RECURSIVE GCD(_, _)
GCD(a, b) == IF b = 0 THEN a ELSE GCD(b, a % b)

\* The quotient a / b of two integers, b > 0, as a fraction in lowest terms.
Frac(a, b) ==
    LET m == IF a < 0 THEN -a ELSE a
        g == GCD(m, b)
    IN  <<a \div g, b \div g>>

UpperCase ==
    <<"A","B","C","D","E","F","G","H","I","J","K","L","M",
      "N","O","P","Q","R","S","T","U","V","W","X","Y","Z",
      "A_OGONEK","C_CARON","E_OGONEK","E_DOT","I_OGONEK","S_CARON",
      "U_OGONEK","U_MACRON","Z_CARON">>

LowerCase ==
    <<"a","b","c","d","e","f","g","h","i","j","k","l","m",
      "n","o","p","q","r","s","t","u","v","w","x","y","z",
      "a_ogonek","c_caron","e_ogonek","e_dot","i_ogonek","s_caron",
      "u_ogonek","u_macron","z_caron">>

LowerChar(c) ==
    IF \E i \in DOMAIN UpperCase : UpperCase[i] = c
    THEN LowerCase[CHOOSE i \in DOMAIN UpperCase : UpperCase[i] = c]
    ELSE c

\* str.lower()
lower(s) == [i \in 1..Len(s) |-> LowerChar(s[i])]

\* sub in s
Contains(s, sub) ==
    \E i \in 0..(Len(s) - Len(sub)) : SubSeq(s, i + 1, i + Len(sub)) = sub

\* s.find(x) and s.rfind(x) for a one-element x: 0-based position, or -1.
find(s, x) ==
    IF \E i \in 1..Len(s) : s[i] = x
    THEN (CHOOSE i \in 1..Len(s) : s[i] = x /\ \A j \in 1..(i - 1) : s[j] # x) - 1
    ELSE -1

rfind(s, x) ==
    IF \E i \in 1..Len(s) : s[i] = x
    THEN (CHOOSE i \in 1..Len(s) : s[i] = x /\ \A j \in (i + 1)..Len(s) : s[j] # x) - 1
    ELSE -1

\* s[a:b] for 0 <= a <= b <= len(s)
Slice(s, a, b) == SubSeq(s, a + 1, b)

DigitChars == <<"0","1","2","3","4","5","6","7","8","9">>

\* str(n) for an integer n >= 0
RECURSIVE Digits(_)
Digits(n) ==
    IF n < 10 THEN <<DigitChars[n + 1]>>
    ELSE Digits(n \div 10) \o <<DigitChars[(n % 10) + 1]>>

\* repr of a float given in hundredths: 90 is 0.9, 150 is 1.5, -10 is -0.1
RenderNum(n) ==
    LET m == IF n < 0 THEN -n ELSE n
        d1 == (m % 100) \div 10
        d2 == m % 10
    IN  (IF n < 0 THEN <<"-">> ELSE <<>>)
        \o Digits(m \div 100) \o <<".", DigitChars[d1 + 1]>>
        \o (IF d2 = 0 THEN <<>> ELSE <<DigitChars[d2 + 1]>>)

-----------------------------------------------------------------------------
(* The text of a response of the remote service, as a sequence of lexemes:  *)
(* the braces, whitespace, prose words and complete JSON members            *)
(* ("key": value).  The str the code sees is Flatten of the lexemes.        *)

JNull == [ty |-> "null", b |-> FALSE, n |-> 0, s |-> <<>>, l |-> <<>>]

JBool(b) == [ty |-> "bool", b |-> b, n |-> 0, s |-> <<>>, l |-> <<>>]

JNum(n) == [ty |-> "num", b |-> FALSE, n |-> n, s |-> <<>>, l |-> <<>>]

JStr(s) == [ty |-> "str", b |-> FALSE, n |-> 0, s |-> s, l |-> <<>>]

JList(l) == [ty |-> "list", b |-> FALSE, n |-> 0, s |-> <<>>, l |-> l]

LBrace == [kind |-> "{", key |-> <<>>, val |-> JNull]

RBrace == [kind |-> "}", key |-> <<>>, val |-> JNull]

Space == [kind |-> "space", key |-> <<>>, val |-> JNull]

Word(w) == [kind |-> "word", key |-> w, val |-> JNull]

Member(k, v) == [kind |-> "member", key |-> k, val |-> v]

Quote(s) == <<"\"">> \o s \o <<"\"">>

RECURSIVE RenderList(_)
RenderList(l) ==
    IF l = <<>> THEN <<>>
    ELSE Quote(Head(l))
         \o (IF Len(l) > 1 THEN <<",", " ">> ELSE <<>>)
         \o RenderList(Tail(l))

RenderValue(v) ==
    CASE v.ty = "null" -> txt_null
      [] v.ty = "bool" -> (IF v.b THEN txt_true ELSE txt_false)
      [] v.ty = "num"  -> RenderNum(v.n)
      [] v.ty = "str"  -> Quote(v.s)
      [] v.ty = "list" -> <<"[">> \o RenderList(v.l) \o <<"]">>

RenderLexeme(x) ==
    CASE x.kind = "{"      -> <<"{">>
      [] x.kind = "}"      -> <<"}">>
      [] x.kind = "space"  -> <<" ">>
      [] x.kind = "word"   -> x.key
      [] x.kind = "member" -> Quote(x.key) \o <<":", " ">> \o RenderValue(x.val)

\* What stands between two adjacent lexemes in the str.
Separator(x, y) ==
    IF x.kind = "member" /\ y.kind = "member" THEN <<",", " ">>
    ELSE IF x.kind = "word" /\ y.kind = "word" THEN <<" ">>
    ELSE <<>>

RECURSIVE Flatten(_)
Flatten(text) ==
    IF text = <<>> THEN <<>>
    ELSE RenderLexeme(Head(text))
         \o (IF Len(text) > 1 THEN Separator(text[1], text[2]) ELSE <<>>)
         \o Flatten(Tail(text))

\* str.strip() on the lexemes: leading and trailing whitespace removed.
strip(text) ==
    IF \A i \in 1..Len(text) : text[i] = Space THEN <<>>
    ELSE LET a == CHOOSE i \in 1..Len(text) :
                      text[i] # Space /\ \A j \in 1..(i - 1) : text[j] = Space
             b == CHOOSE i \in 1..Len(text) :
                      text[i] # Space /\ \A j \in (i + 1)..Len(text) : text[j] = Space
         IN  SubSeq(text, a, b)

-----------------------------------------------------------------------------
(* Exceptions, results, and the response parser of check_audio_file.        *)

\* class AudioQualityIssue(Enum): a member is modelled by its value
AudioQualityIssue ==
    {AUDIBLE_BREATH, BACKGROUND_NOISE, MOUTH_SOUNDS, DISTORTION,
     VOLUME_INCONSISTENCY, PRONUNCIATION_ERROR, WORD_MISMATCH, UNCLEAR_SPEECH}

\* MAX_AUDIO_SIZE_MB of config.py
MAX_AUDIO_SIZE_MB == 25

BytesPerMB == 1024 * 1024

DEFAULT_MODEL == "gpt-4o-mini-audio-preview-2024-12-17"

\* AudioChecker.__init__ with an API key: the fields of the object; the
\* client is built from the key.
AudioChecker(api_key, model) ==
    [api_key |-> api_key, model |-> model, client |-> [api_key |-> api_key]]

\* An exception: its class and str(e).
Exc(kind, msg) == [kind |-> kind, msg |-> msg]

NoExc == Exc("none", <<>>)

\* The classes `except Exception` catches: every class of this model.
IsException(e) == e.kind # "none"

\* @dataclass AudioAnalysisResult
AudioAnalysisResult(correct, word, issues, score, text, feedback, hints, duration) ==
    [is_word_correct   |-> correct,
     expected_word     |-> word,
     detected_issues   |-> issues,
     confidence_score  |-> score,
     transcript        |-> text,
     detailed_feedback |-> feedback,
     suggestions       |-> hints,
     audio_duration    |-> duration]

\* json.loads accepts the span: an object whose members are complete.
IsJson(json_str) ==
    /\ Len(json_str) >= 2
    /\ json_str[1] = LBrace
    /\ json_str[Len(json_str)] = RBrace
    /\ LET inner == strip(SubSeq(json_str, 2, Len(json_str) - 1))
       IN  \A i \in 1..Len(inner) : inner[i].kind = "member"

\* json.loads(json_str): a dict, key -> value; of a repeated key the last wins.
json_loads(json_str) ==
    LET inner == strip(SubSeq(json_str, 2, Len(json_str) - 1))
        keys  == {inner[i].key : i \in 1..Len(inner)}
        last(k) == CHOOSE i \in 1..Len(inner) :
                       inner[i].key = k /\ \A j \in (i + 1)..Len(inner) : inner[j].key # k
    IN  [k \in keys |-> inner[last(k)].val]

\* if key not in d: d[key] = value
SetDefault(d, key, value) ==
    IF key \in DOMAIN d THEN d
    ELSE [k \in DOMAIN d \cup {key} |-> IF k = key THEN value ELSE d[k]]

\* d.get(key, default)
Get(d, key, default) == IF key \in DOMAIN d THEN d[key] ELSE default

\* Mutation: the confidence default written over a supplied value too.
ValidateRequiredFields_OverwriteScore(d, response_text) ==
    LET d1 == SetDefault(d, s_is_word_correct, JBool(FALSE))
        d2 == [k \in DOMAIN d1 \cup {s_confidence_score} |->
                  IF k = s_confidence_score THEN JNum(50) ELSE d1[k]]
        d3 == SetDefault(d2, s_transcript, JStr(<<>>))
        d4 == SetDefault(d3, s_detected_issues, JList(<<>>))
        d5 == SetDefault(d4, s_detailed_feedback, JStr(response_text))
    IN  SetDefault(d5, s_suggestions, JList(<<>>))

\* "Validate required fields" of check_audio_file
ValidateRequiredFields(d, response_text) ==
    LET d1 == SetDefault(d, s_is_word_correct, JBool(FALSE))
        d2 == SetDefault(d1, s_confidence_score, JNum(50))
        d3 == SetDefault(d2, s_transcript, JStr(<<>>))
        d4 == SetDefault(d3, s_detected_issues, JList(<<>>))
        d5 == SetDefault(d4, s_detailed_feedback, JStr(response_text))
    IN  SetDefault(d5, s_suggestions, JList(<<>>))

\* Mutation: "incorrect" not looked for.
JudgedCorrect_IgnoreIncorrect(response_lower) == Contains(response_lower, kw_correct)

\* is_correct of _parse_text_response
JudgedCorrect(response_lower) ==
    Contains(response_lower, kw_correct) /\ ~Contains(response_lower, kw_incorrect)

\* Mutation: "smack" and "mumbl" not looked for.
InferredIssues_FirstKeywordOnly(response_lower) ==
    (IF Contains(response_lower, kw_breath) THEN <<AUDIBLE_BREATH>> ELSE <<>>)
    \o (IF Contains(response_lower, kw_noise) THEN <<BACKGROUND_NOISE>> ELSE <<>>)
    \o (IF Contains(response_lower, kw_mouth) THEN <<MOUTH_SOUNDS>> ELSE <<>>)
    \o (IF Contains(response_lower, kw_distort) THEN <<DISTORTION>> ELSE <<>>)
    \o (IF Contains(response_lower, kw_unclear) THEN <<UNCLEAR_SPEECH>> ELSE <<>>)

\* "Try to identify issues mentioned in text": the appends, in their order.
InferredIssues(response_lower) ==
    (IF Contains(response_lower, kw_breath) THEN <<AUDIBLE_BREATH>> ELSE <<>>)
    \o (IF Contains(response_lower, kw_noise) THEN <<BACKGROUND_NOISE>> ELSE <<>>)
    \o (IF Contains(response_lower, kw_mouth) \/ Contains(response_lower, kw_smack)
        THEN <<MOUTH_SOUNDS>> ELSE <<>>)
    \o (IF Contains(response_lower, kw_distort) THEN <<DISTORTION>> ELSE <<>>)
    \o (IF Contains(response_lower, kw_unclear) \/ Contains(response_lower, kw_mumbl)
        THEN <<UNCLEAR_SPEECH>> ELSE <<>>)

\* AudioChecker._parse_text_response
_parse_text_response(response_text, expected_word) ==
    LET low == lower(response_text)
        is_correct == JudgedCorrect(low)
        issues == InferredIssues(low)
    IN  [k \in {s_is_word_correct, s_confidence_score, s_transcript,
                s_detected_issues, s_detailed_feedback, s_suggestions} |->
            CASE k = s_is_word_correct   -> JBool(is_correct)
              [] k = s_confidence_score  -> JNum(50)
              [] k = s_transcript        ->
                     JStr(IF is_correct THEN expected_word ELSE kw_unclear)
              [] k = s_detected_issues   -> JList(issues)
              [] k = s_detailed_feedback -> JStr(response_text)
              [] k = s_suggestions       -> JList(<<msg_review_feedback>>)]

\* Mutation: the + 1 forgotten, the span stops before the closing brace.
JsonEnd_NoPlusOne(text) == rfind(text, RBrace)

\* json_end of check_audio_file: response_text.rfind('}') + 1
JsonEnd(text) == rfind(text, RBrace) + 1

\* What the inner try block raises on the stripped text: ValueError when
\* there is no span, json.JSONDecodeError when the span is no object.
InnerException(stripped) ==
    LET json_start == find(stripped, LBrace)
        json_end   == JsonEnd(stripped)
    IN  IF json_start >= 0 /\ json_end > json_start
        THEN IF IsJson(Slice(stripped, json_start, json_end)) THEN NoExc
             ELSE Exc("JSONDecodeError", msg_json_decode)
        ELSE Exc("ValueError", msg_no_json)

\* Mutation: the handler written for json.JSONDecodeError alone.
CaughtInside_DecodeErrorOnly(e) == e.kind = "JSONDecodeError"

\* except (json.JSONDecodeError, ValueError)
CaughtInside(e) == e.kind \in {"JSONDecodeError", "ValueError"}

\* "Try to extract JSON from response": the inner try/except of
\* check_audio_file.  text is the content of the first choice, in lexemes.
ExtractResultData(text, expected_word) ==
    LET stripped      == strip(text)
        response_text == Flatten(stripped)
        json_start    == find(stripped, LBrace)
        json_end      == JsonEnd(stripped)
    IN  IF InnerException(stripped) = NoExc
        THEN ValidateRequiredFields(
                 json_loads(Slice(stripped, json_start, json_end)), response_text)
        ELSE _parse_text_response(response_text, expected_word)

\* Mutation: no token is skipped.
ConvertIssues_KeepAll(tokens) == tokens

\* "Convert issue strings to enums": unknown issue types are skipped
ConvertIssues(tokens) == SelectSeq(tokens, LAMBDA t : t \in AudioQualityIssue)

\* Mutation: the handler re-raises the exception it caught.
AnalysisError_Reraise(e) == e

\* raise ValueError(f"Error analyzing audio: {str(e)}")
AnalysisError(e) == Exc("ValueError", msg_error_analyzing_audio \o e.msg)

\* Mutation: the word read back from the response when it gives one.
BuildResult_WordFromResponse(result_data, detected_issues, expected_word, duration) ==
    AudioAnalysisResult(
        Get(result_data, s_is_word_correct, JBool(FALSE)).b,
        Get(result_data, s_expected_word, JStr(expected_word)).s,
        detected_issues,
        Get(result_data, s_confidence_score, JNum(0)).n,
        Get(result_data, s_transcript, JStr(<<>>)).s,
        Get(result_data, s_detailed_feedback, JStr(<<>>)).s,
        Get(result_data, s_suggestions, JList(<<>>)).l,
        duration)

\* Mutation: the confidence is clamped to the range 0..1.
BuildResult_ClampScore(result_data, detected_issues, expected_word, duration) ==
    LET score == Get(result_data, s_confidence_score, JNum(0)).n
    IN  AudioAnalysisResult(
            Get(result_data, s_is_word_correct, JBool(FALSE)).b,
            expected_word,
            detected_issues,
            IF score < 0 THEN 0 ELSE IF score > 100 THEN 100 ELSE score,
            Get(result_data, s_transcript, JStr(<<>>)).s,
            Get(result_data, s_detailed_feedback, JStr(<<>>)).s,
            Get(result_data, s_suggestions, JList(<<>>)).l,
            duration)

\* return AudioAnalysisResult(...) of check_audio_file
BuildResult(result_data, detected_issues, expected_word, duration) ==
    AudioAnalysisResult(
        Get(result_data, s_is_word_correct, JBool(FALSE)).b,
        expected_word,
        detected_issues,
        Get(result_data, s_confidence_score, JNum(0)).n,
        Get(result_data, s_transcript, JStr(<<>>)).s,
        Get(result_data, s_detailed_feedback, JStr(<<>>)).s,
        Get(result_data, s_suggestions, JList(<<>>)).l,
        duration)

Returned(r) == [exc |-> NoExc, result |-> Some(r)]

Raised(e) == [exc |-> e, result |-> None]

\* The try block of check_audio_file from the return of the remote call on:
\* remote.exc is what client.chat.completions.create raised (or NoExc),
\* remote.choices the content of each choice of the response (None or text).
AfterRemoteCall(remote, expected_word, duration) ==
    IF IsException(remote.exc) THEN Raised(AnalysisError(remote.exc))
    ELSE IF remote.choices = <<>>
    THEN Raised(AnalysisError(Exc("IndexError", msg_index_error)))
    ELSE IF remote.choices[1] = None
    THEN Raised(AnalysisError(Exc("AttributeError", msg_none_strip)))
    ELSE LET inner == InnerException(strip(remote.choices[1][1]))
             result_data == ExtractResultData(remote.choices[1][1], expected_word)
             issues == Get(result_data, s_detected_issues, JList(<<>>))
         IN  IF IsException(inner) /\ ~CaughtInside(inner)
             THEN Raised(AnalysisError(inner))
             ELSE IF issues.ty # "list"
             THEN Raised(AnalysisError(Exc("TypeError", msg_none_iter)))
             ELSE Returned(BuildResult(result_data, ConvertIssues(issues.l),
                                       expected_word, duration))

-----------------------------------------------------------------------------
(* The local phase of check_audio_file: everything before the remote call.  *)

\* A file on disk: Path.exists(), stat().st_size, whether open() succeeds,
\* and the length pydub decodes (None when it cannot).
File(exists, st_size, readable, length_ms) ==
    [exists |-> exists, st_size |-> st_size, readable |-> readable,
     length_ms |-> length_ms]

\* Mutation: the size in MB computed with floor division.
TooLarge_FloorDiv(st_size) == (st_size \div BytesPerMB) > MAX_AUDIO_SIZE_MB

\* file_size_mb > MAX_AUDIO_SIZE_MB, file_size_mb = st_size / (1024 * 1024)
TooLarge(st_size) == st_size > MAX_AUDIO_SIZE_MB * BytesPerMB

\* f"{file_size_mb:.1f}": one decimal, round half to even
FormatMB1(st_size) ==
    LET q == (st_size * 10) \div BytesPerMB
        r == (st_size * 10) % BytesPerMB
        t == IF 2 * r > BytesPerMB \/ (2 * r = BytesPerMB /\ q % 2 = 1)
             THEN q + 1 ELSE q
    IN  Digits(t \div 10) \o <<".", DigitChars[(t % 10) + 1]>>

\* AudioChecker._get_audio_duration
_get_audio_duration(file) ==
    IF file.length_ms = None THEN None
    ELSE Some(Frac(file.length_ms[1], 1000))

\* Path(audio_path).suffix.lower().lstrip('.'), 'mp3' unless a known format
AudioFormat(audio_path) ==
    LET name   == Slice(audio_path, rfind(audio_path, "/") + 1, Len(audio_path))
        dot    == rfind(name, ".")
        suffix == IF 0 < dot /\ dot < Len(name) - 1
                  THEN lower(Slice(name, dot + 1, Len(name))) ELSE <<>>
    IN  IF suffix \in {fmt_mp3, fmt_wav, fmt_m4a, fmt_ogg} THEN suffix ELSE fmt_mp3

\* Mutation: a missing file reported with the class of the other errors.
FileNotFound_AsValueError(audio_path) ==
    Exc("ValueError", msg_not_found \o audio_path)

\* raise FileNotFoundError(f"Audio file not found: {audio_path}")
FileNotFound(audio_path) ==
    Exc("FileNotFoundError", msg_not_found \o audio_path)

\* check_audio_file up to the try block: the exception it raises there, or
\* NoExc with the duration and the request it is about to send.
LocalPhase(files, audio_path, expected_word, language) ==
    LET file == files[audio_path]
    IN  IF ~file.exists
        THEN [exc |-> FileNotFound(audio_path), duration |-> None]
        ELSE IF TooLarge(file.st_size)
        THEN [exc |-> Exc("ValueError",
                          msg_too_large \o FormatMB1(file.st_size) \o msg_mb_max
                          \o Digits(MAX_AUDIO_SIZE_MB) \o msg_mb),
              duration |-> None]
        ELSE IF ~file.readable
        THEN [exc |-> Exc("PermissionError",
                          msg_permission \o <<"'">> \o audio_path \o <<"'">>),
              duration |-> None]
        ELSE [exc |-> NoExc, duration |-> _get_audio_duration(file)]

\* The request of client.chat.completions.create: the prompt's word and
\* language, and the audio with its format tag; item is the position in the
\* batch of the item it is sent for.
Request(item, audio_path, expected_word, language) ==
    [item |-> item, audio_path |-> audio_path, expected_word |-> expected_word,
     language |-> language, format |-> AudioFormat(audio_path)]

-----------------------------------------------------------------------------
(* batch_check_audio_files and get_quality_summary.                         *)

\* Mutation: the error text is left out of detailed_feedback.
ErrorResult_NoErrorText(expected_word, e) ==
    AudioAnalysisResult(FALSE, expected_word, <<>>, 0, <<>>,
                        msg_error_analyzing_file, <<msg_check_exists>>, None)

\* The "error_result" of batch_check_audio_files
ErrorResult(expected_word, e) ==
    AudioAnalysisResult(FALSE, expected_word, <<>>, 0, <<>>,
                        msg_error_analyzing_file \o e.msg,
                        <<msg_check_exists>>, None)

\* Mutation: a failed item is skipped instead of recorded.
AppendOutcome_DropFailed(res, expected_word, outcome) ==
    IF IsException(outcome.exc) THEN res
    ELSE Append(res, outcome.result[1])

\* Mutation: a failure starts the result list over.
AppendOutcome_RestartOnFailure(res, expected_word, outcome) ==
    IF IsException(outcome.exc)
    THEN <<ErrorResult(expected_word, outcome.exc)>>
    ELSE Append(res, outcome.result[1])

\* One iteration's try/except: the result appended for the outcome of
\* check_audio_file.
AppendOutcome(res, expected_word, outcome) ==
    IF IsException(outcome.exc)
    THEN Append(res, ErrorResult(expected_word, outcome.exc))
    ELSE Append(res, outcome.result[1])

RECURSIVE Concat(_)
Concat(seqs) == IF seqs = <<>> THEN <<>> ELSE Head(seqs) \o Concat(Tail(seqs))

\* Number of positions of s that hold x.
Count(s, x) == Cardinality({i \in 1..Len(s) : s[i] = x})

\* The keys of issue_counts in insertion order: first occurrences.
RECURSIVE InsertionOrder(_)
InsertionOrder(s) ==
    IF s = <<>> THEN <<>>
    ELSE LET front == InsertionOrder(SubSeq(s, 1, Len(s) - 1))
             x == s[Len(s)]
         IN  IF \E i \in 1..Len(front) : front[i] = x THEN front
             ELSE Append(front, x)

\* issue_counts.items()
IssueCountItems(res) ==
    LET all  == Concat([i \in 1..Len(res) |-> res[i].detected_issues])
        keys == InsertionOrder(all)
    IN  [i \in 1..Len(keys) |-> <<keys[i], Count(all, keys[i])>>]

\* Mutation: reverse=True forgotten, the items come out in ascending order.
RECURSIVE SortedByCountDesc_Ascending(_)
SortedByCountDesc_Ascending(items) ==
    IF items = <<>> THEN <<>>
    ELSE LET front == SortedByCountDesc_Ascending(SubSeq(items, 1, Len(items) - 1))
             x == items[Len(items)]
             n == Cardinality({i \in 1..Len(front) : front[i][2] <= x[2]})
         IN  SubSeq(front, 1, n) \o <<x>> \o SubSeq(front, n + 1, Len(front))

\* sorted(items, key=lambda x: x[1], reverse=True): stable, so items of
\* equal count keep their order.
RECURSIVE SortedByCountDesc(_)
SortedByCountDesc(items) ==
    IF items = <<>> THEN <<>>
    ELSE LET front == SortedByCountDesc(SubSeq(items, 1, Len(items) - 1))
             x == items[Len(items)]
             n == Cardinality({i \in 1..Len(front) : front[i][2] >= x[2]})
         IN  SubSeq(front, 1, n) \o <<x>> \o SubSeq(front, n + 1, Len(front))

RECURSIVE Sum(_)
Sum(s) == IF s = <<>> THEN 0 ELSE Head(s) + Sum(Tail(s))

\* Mutation: only the correct results without issues are counted.
CorrectWords_CleanOnly(res) ==
    Cardinality({i \in 1..Len(res) :
        res[i].is_word_correct /\ res[i].detected_issues = <<>>})

\* sum(1 for r in results if r.is_word_correct)
CorrectWords(res) == Cardinality({i \in 1..Len(res) : res[i].is_word_correct})

\* Mutation: a single result is treated as no result.
NoResults_AtMostOne(res) == Len(res) <= 1

\* if not results
NoResults(res) == res = <<>>

\* Mutation: the mean taken over the results of non-zero confidence only.
AverageConfidence_SkipZero(res) ==
    LET n == Cardinality({i \in 1..Len(res) : res[i].confidence_score # 0})
    IN  Frac(Sum([i \in 1..Len(res) |-> res[i].confidence_score]),
             IF n = 0 THEN 1 ELSE n)

\* avg_confidence = sum(r.confidence_score for r in results) / total_files
AverageConfidence(res) ==
    Frac(Sum([i \in 1..Len(res) |-> res[i].confidence_score]), Len(res))

\* Mutation: a file without issues is clean whatever its word.
CleanFiles_NoIssuesOnly(res) ==
    Cardinality({i \in 1..Len(res) : res[i].detected_issues = <<>>})

\* len([r for r in results if not r.detected_issues and r.is_word_correct])
CleanFiles(res) ==
    Cardinality({i \in 1..Len(res) :
        res[i].detected_issues = <<>> /\ res[i].is_word_correct})

\* AudioChecker.get_quality_summary
get_quality_summary(res) ==
    IF NoResults(res) THEN [error |-> msg_no_results]
    ELSE LET total_files == Len(res)
             correct_words == CorrectWords(res)
         IN  [total_files        |-> total_files,
              correct_words      |-> correct_words,
              word_accuracy_rate |-> Frac(correct_words, total_files),
              average_confidence |-> AverageConfidence(res),
              common_issues      |-> SortedByCountDesc(IssueCountItems(res)),
              files_with_issues  |->
                  Cardinality({i \in 1..Len(res) : res[i].detected_issues # <<>>}),
              clean_files        |-> CleanFiles(res)]

-----------------------------------------------------------------------------
(* Inputs: the files, the batches, and what the remote service answers.     *)

\* Longest batch passed to batch_check_audio_files.
MaxBatch == 2

\* Longest result list passed to get_quality_summary on its own.
MaxResults == 3

Paths == {path_a, path_b}

Words == {word_duona, word_namas}

AbsentFile == File(FALSE, 0, FALSE, None)

SmallFile == File(TRUE, 2048, TRUE, Some(1500))

\* exactly the maximum size, and pydub cannot decode it
LimitFile == File(TRUE, MAX_AUDIO_SIZE_MB * BytesPerMB, TRUE, None)

BigFile == File(TRUE, MAX_AUDIO_SIZE_MB * BytesPerMB + 1, TRUE, Some(1500))

UnreadableFile == File(TRUE, 2048, FALSE, None)

FileKinds == {AbsentFile, SmallFile, LimitFile, BigFile, UnreadableFile}

SeqsUpTo(S, n) == UNION {[1..k -> S] : k \in 0..n}

\* The members a response object may carry for each field, in the order of
\* the prompt; <<>> stands for "field absent".
IssueTokens == <<AUDIBLE_BREATH, tok_robotic_artifact, BACKGROUND_NOISE, AUDIBLE_BREATH>>

FieldChoices ==
    << {<<>>, <<Member(s_is_word_correct, JBool(TRUE))>>,
              <<Member(s_is_word_correct, JBool(FALSE))>>},
       {<<>>, <<Member(s_confidence_score, JNum(90))>>,
              <<Member(s_confidence_score, JNum(150))>>,
              <<Member(s_confidence_score, JNum(-10))>>},
       {<<>>, <<Member(s_transcript, JStr(word_duona))>>},
       {<<>>, <<Member(s_detected_issues, JList(<<>>))>>,
              <<Member(s_detected_issues, JList(IssueTokens))>>,
              <<Member(s_detected_issues, JNull)>>},
       {<<>>, <<Member(s_detailed_feedback, JStr(txt_clear))>>},
       {<<>>, <<Member(s_suggestions, JList(<<txt_retry>>))>>},
       {<<>>, <<Member(s_expected_word, JStr(word_namas))>>} >>

Bodies ==
    {c[1] \o c[2] \o c[3] \o c[4] \o c[5] \o c[6] \o c[7] :
        c \in FieldChoices[1] \X FieldChoices[2] \X FieldChoices[3] \X FieldChoices[4]
              \X FieldChoices[5] \X FieldChoices[6] \X FieldChoices[7]}

\* The object of the spec's example: all six fields, no issue.
FullBody ==
    <<Member(s_is_word_correct, JBool(TRUE)), Member(s_confidence_score, JNum(90)),
      Member(s_transcript, JStr(word_duona)), Member(s_detected_issues, JList(<<>>)),
      Member(s_detailed_feedback, JStr(txt_clear)), Member(s_suggestions, JList(<<>>))>>

\* All six fields, with issue tokens of which one is unknown.
IssueBody ==
    <<Member(s_suggestions, JList(<<txt_retry>>)), Member(s_detailed_feedback, JStr(txt_clear)),
      Member(s_detected_issues, JList(IssueTokens)), Member(s_transcript, JStr(word_namas)),
      Member(s_confidence_score, JNum(50)), Member(s_is_word_correct, JBool(FALSE))>>

\* A field given twice.
RepeatBody == FullBody \o <<Member(s_transcript, JStr(word_namas)),
                            Member(s_is_word_correct, JBool(FALSE))>>

FewBodies == {<<>>, FullBody, IssueBody, RepeatBody}

\* What surrounds the object: nothing, whitespace, prose.
Wrappers ==
    { <<<<>>, <<>>>>, <<<<Space>>, <<Space, Space>>>>,
      <<<<Word(word_result), Space>>, <<Space, Word(word_done)>>>> }

ObjectTexts ==
    {w[1] \o <<LBrace>> \o b \o <<RBrace>> \o w[2] : w \in Wrappers, b \in Bodies \cup FewBodies}

\* Texts whose span from the first '{' to the last '}' is missing or is not
\* an object.
BrokenTexts ==
    UNION {{ <<LBrace>> \o b,
             b \o <<RBrace>>,
             b,
             <<RBrace>> \o b \o <<LBrace>>,
             <<LBrace, LBrace>> \o b \o <<RBrace>>,
             <<LBrace>> \o b \o <<RBrace, Space, Word(word_done), RBrace>>,
             <<LBrace>> \o b \o <<Word(word_Incorrect), Word(word_breath), RBrace>>,
             <<LBrace, Space>> \o b \o <<Space, RBrace>> \o <<Space>> } : b \in FewBodies}

\* Words a prose answer is made of, in the order they are said.
ProseWords ==
    <<word_Correct, word_Incorrect, word_breath, word_NOISE, word_Mouth,
      word_smacking, word_Distorted, word_unclear, word_Mumbled, word_fine>>

Sentence(said) ==
    LET chosen == SelectSeq(ProseWords, LAMBDA w : w \in said)
    IN  [j \in 1..Len(chosen) |-> Word(chosen[j])]

\* Prose without braces: every choice of words, bare or inside whitespace.
ProseTexts ==
    { <<>>, <<Space>> }
    \cup { Sentence(said) : said \in SUBSET {ProseWords[j] : j \in 1..Len(ProseWords)} }
    \cup { <<Space>> \o Sentence(said) \o <<Space, Space>> :
              said \in SUBSET {ProseWords[j] : j \in 1..Len(ProseWords)} }

ResponseTexts == ObjectTexts \cup BrokenTexts \cup ProseTexts

\* What client.chat.completions.create does: raise, or return a response.
RemoteRaises(e) == [exc |-> e, choices |-> <<>>]

RemoteResponse(choices) == [exc |-> NoExc, choices |-> choices]

RemoteErrors ==
    { Exc("APIConnectionError", msg_connection),
      Exc("AuthenticationError", msg_bad_key) }

\* The outcomes drawn while a batch runs.
BatchOutcomes ==
    { RemoteRaises(Exc("APIConnectionError", msg_connection)),
      RemoteResponse(<<>>), RemoteResponse(<<None>>) }
    \cup { RemoteResponse(<<Some(t)>>) :
             t \in { <<LBrace>> \o FullBody \o <<RBrace>>,
                     <<Word(word_result), LBrace>> \o IssueBody \o <<RBrace>>,
                     <<LBrace, Member(s_detected_issues, JNull), RBrace>>,
                     <<Word(word_Incorrect), Word(word_breath)>> } }

\* Every outcome: the response parser on all the texts.
AllOutcomes ==
    BatchOutcomes
    \cup { RemoteRaises(e) : e \in RemoteErrors }
    \cup { RemoteResponse(<<Some(t)>>) : t \in ResponseTexts }
    \cup { RemoteResponse(<<Some(t), None>>) : t \in ProseTexts }

\* Results as get_quality_summary may be given them.
SampleResults ==
    { ErrorResult(word_duona, Exc("FileNotFoundError", msg_not_found \o path_a)),
      AudioAnalysisResult(TRUE, word_duona, <<>>, 90, word_duona, txt_clear, <<>>, None),
      AudioAnalysisResult(TRUE, word_namas, <<AUDIBLE_BREATH>>, 50, word_namas,
                          txt_clear, <<txt_retry>>, Some(Frac(1500, 1000))),
      AudioAnalysisResult(FALSE, word_namas, <<BACKGROUND_NOISE, AUDIBLE_BREATH>>, 150,
                          kw_unclear, txt_clear, <<>>, None),
      AudioAnalysisResult(FALSE, word_duona, <<>>, -10, <<>>, txt_clear, <<>>, None),
      AudioAnalysisResult(TRUE, word_duona,
                          <<BACKGROUND_NOISE, DISTORTION, BACKGROUND_NOISE>>, 90,
                          word_duona, txt_clear, <<>>, None) }

\* The checkers a caller constructs.
Checkers ==
    { AudioChecker("sk-test", DEFAULT_MODEL) }

-----------------------------------------------------------------------------
(* The state machine.                                                       *)

NoSummary == None

\* No checker call is under way.
CheckerIdle ==
    /\ checker = <<>>
    /\ fs = <<>>
    /\ audio_files = <<>>
    /\ results = <<>>
    /\ idx = 1
    /\ pc = "idle"
    /\ raised = <<>>
    /\ requests = <<>>
    /\ responses = <<>>
    /\ summary = NoSummary

\* No sanitizer call is under way.
SanitizerIdle ==
    /\ given_word = <<>>
    /\ sanitized = <<<<>>>>

\* No generation script runs.
GenerationIdle ==
    /\ args = <<>>
    /\ disk = <<>>
    /\ disk0 = <<>>
    /\ gen_pc = "idle"
    /\ word_i = 1
    /\ voice_i = 1
    /\ success_count = 0
    /\ total_success = 0
    /\ total_attempts = 0
    /\ exit_status = None
    /\ calls = <<>>
    /\ interrupt = None

\* check_for_duplicates is not being called.
WordlistIdle ==
    /\ all_words = <<>>
    /\ duplicates = None

\* A caller has a file tree and calls batch_check_audio_files(audio_files).
Init ==
    /\ checker \in Checkers
    /\ fs \in [Paths -> FileKinds]
    /\ audio_files \in SeqsUpTo(Paths \X Words, MaxBatch)
    /\ results = <<>>
    /\ idx = 1
    /\ pc = "loop"
    /\ raised = <<>>
    /\ requests = <<>>
    /\ responses = <<>>
    /\ summary = NoSummary
    /\ SanitizerIdle
    /\ WordlistIdle
    /\ GenerationIdle

\* One iteration of the loop up to the remote call: check_audio_file runs
\* its local phase; if that raises, the except clause appends the error
\* result and the loop goes on, else the request is sent.
CallCheckAudioFile ==
    /\ pc = "loop"
    /\ idx <= Len(audio_files)
    /\ LET audio_path    == audio_files[idx][1]
           expected_word == audio_files[idx][2]
           local == LocalPhase(fs, audio_path, expected_word, DEFAULT_LANGUAGE)
       IN  IF IsException(local.exc)
           THEN /\ results' = AppendOutcome(results, expected_word, Raised(local.exc))
                /\ raised' = Append(raised, local.exc)
                /\ idx' = idx + 1
                /\ UNCHANGED <<pc, requests>>
           ELSE /\ requests' = Append(requests,
                                      Request(idx, audio_path, expected_word, DEFAULT_LANGUAGE))
                /\ pc' = "remote"
                /\ UNCHANGED <<results, raised, idx>>
    /\ UNCHANGED <<checker, fs, audio_files, responses, summary>>
    /\ UNCHANGED <<sanitizer_vars, generation_vars, wordlist_vars>>

\* Mutation: a failed remote call is tried again, the item is sent a second
\* time.
RemoteReturns_Retry(outcomes) ==
    /\ pc = "remote"
    /\ \E remote \in outcomes :
        LET audio_path    == audio_files[idx][1]
            expected_word == audio_files[idx][2]
            duration == LocalPhase(fs, audio_path, expected_word, DEFAULT_LANGUAGE).duration
            outcome  == AfterRemoteCall(remote, expected_word, duration)
        IN  /\ responses' = Append(responses, remote)
            /\ IF IsException(remote.exc)
               THEN UNCHANGED <<results, raised, idx>>
               ELSE /\ results' = AppendOutcome(results, expected_word, outcome)
                    /\ raised' = Append(raised, outcome.exc)
                    /\ idx' = idx + 1
    /\ pc' = "loop"
    /\ UNCHANGED <<checker, fs, audio_files, requests, summary>>
    /\ UNCHANGED <<sanitizer_vars, generation_vars, wordlist_vars>>

\* The remote call returns or raises; check_audio_file finishes, and the
\* loop appends its result or the error result.
RemoteReturns(outcomes) ==
    /\ pc = "remote"
    /\ \E remote \in outcomes :
        LET audio_path    == audio_files[idx][1]
            expected_word == audio_files[idx][2]
            duration == LocalPhase(fs, audio_path, expected_word, DEFAULT_LANGUAGE).duration
            outcome  == AfterRemoteCall(remote, expected_word, duration)
        IN  /\ results' = AppendOutcome(results, expected_word, outcome)
            /\ raised' = Append(raised, outcome.exc)
            /\ responses' = Append(responses, remote)
    /\ idx' = idx + 1
    /\ pc' = "loop"
    /\ UNCHANGED <<checker, fs, audio_files, requests, summary>>
    /\ UNCHANGED <<sanitizer_vars, generation_vars, wordlist_vars>>

\* return results
BatchReturn ==
    /\ pc = "loop"
    /\ idx > Len(audio_files)
    /\ pc' = "done"
    /\ UNCHANGED <<checker, fs, audio_files, results, idx, raised, requests, responses, summary>>
    /\ UNCHANGED <<sanitizer_vars, generation_vars, wordlist_vars>>

\* summary = checker.get_quality_summary(results)
GetQualitySummary ==
    /\ pc = "done"
    /\ summary' = Some(get_quality_summary(results))
    /\ pc' = "summarized"
    /\ UNCHANGED <<checker, fs, audio_files, results, idx, raised, requests, responses>>
    /\ UNCHANGED <<sanitizer_vars, generation_vars, wordlist_vars>>

BatchRemoteReturns == RemoteReturns(BatchOutcomes)

Next ==
    \/ CallCheckAudioFile
    \/ BatchRemoteReturns
    \/ BatchReturn
    \/ GetQualitySummary

Spec == Init /\ [][Next]_vars

\* check_audio_file on one readable file, the request sent: the parser on
\* every response.
InitParse ==
    /\ checker \in Checkers
    /\ fs = [p \in Paths |-> IF p = path_a THEN SmallFile ELSE LimitFile]
    /\ \E p \in Paths, w \in Words :
          /\ audio_files = <<<<p, w>>>>
          /\ requests = <<Request(1, p, w, DEFAULT_LANGUAGE)>>
    /\ results = <<>>
    /\ idx = 1
    /\ pc = "remote"
    /\ raised = <<>>
    /\ responses = <<>>
    /\ summary = NoSummary
    /\ SanitizerIdle
    /\ WordlistIdle
    /\ GenerationIdle

AnyRemoteReturns == RemoteReturns(AllOutcomes)

NextParse ==
    \/ AnyRemoteReturns
    \/ BatchReturn

SpecParse == InitParse /\ [][NextParse]_vars

\* get_quality_summary on a result list of the caller's.
InitSummary ==
    /\ checker \in Checkers
    /\ fs = [p \in Paths |-> AbsentFile]
    /\ audio_files = <<>>
    /\ results \in SeqsUpTo(SampleResults, MaxResults)
    /\ idx = 1
    /\ pc = "done"
    /\ raised = <<>>
    /\ requests = <<>>
    /\ responses = <<>>
    /\ summary = NoSummary
    /\ SanitizerIdle
    /\ WordlistIdle
    /\ GenerationIdle

NextSummary == GetQualitySummary

SpecSummary == InitSummary /\ [][NextSummary]_vars

-----------------------------------------------------------------------------
(* The word sanitizers of the generation scripts.                           *)

\* The characters str.strip() removes at both ends.
Whitespace == {" ", "\t", "\n", "\r"}

\* str.strip()
str_strip(s) ==
    IF \A i \in 1..Len(s) : s[i] \in Whitespace THEN <<>>
    ELSE LET a == CHOOSE i \in 1..Len(s) :
                      s[i] \notin Whitespace /\ \A j \in 1..(i - 1) : s[j] \in Whitespace
             b == CHOOSE i \in 1..Len(s) :
                      s[i] \notin Whitespace /\ \A j \in (i + 1)..Len(s) : s[j] \in Whitespace
         IN  SubSeq(s, a, b)

\* str.replace(old, new) for one-character old and new
replace(s, old, new) == [i \in 1..Len(s) |-> IF s[i] = old THEN new ELSE s[i]]

\* LITHUANIAN_CHARS of audio_utils.py, gen_audio.py and genaudio_outetts.py
LITHUANIAN_CHARS ==
    <<"a","a_ogonek","b","c","c_caron","d","e","e_ogonek","e_dot","f","g","h",
      "i","i_ogonek","y","j","k","l","m","n","o","p","r","s","s_caron","t",
      "u","u_ogonek","u_macron","v","z","z_caron">>

\* What the class [^a-z...\-_] of the sanitizers does not match.
AllowedChars ==
    {LowerCase[i] : i \in 1..26}
    \cup {LITHUANIAN_CHARS[i] : i \in 1..Len(LITHUANIAN_CHARS)}
    \cup {"-", "_"}

\* re.sub(r'[^a-z' + LITHUANIAN_CHARS + r'\-_]', '', s)
RemoveDisallowed(s) == SelectSeq(s, LAMBDA c : c \in AllowedChars)

\* sanitize_lithuanian_word of audio_utils.py: "" when invalid
sanitize_lithuanian_word(w) ==
    LET stripped == lower(str_strip(w))
        word_with_underscores == replace(stripped, " ", "_")
        cleaned == RemoveDisallowed(word_with_underscores)
    IN  IF cleaned = <<>> \/ Len(cleaned) > 100 THEN <<>> ELSE cleaned

\* sanitize_word of gen_audio.py: None when invalid
sanitize_word(w) ==
    LET stripped == lower(str_strip(w))
        cleaned == RemoveDisallowed(stripped)
    IN  IF cleaned = <<>> \/ Len(cleaned) > 100 THEN None ELSE Some(cleaned)

\* sanitize_lithuanian_word of genaudio_outetts.py: "" when invalid
outetts_sanitize_lithuanian_word(w) ==
    LET stripped == lower(str_strip(w))
        word_with_underscores == replace(stripped, " ", "_")
        cleaned == RemoveDisallowed(word_with_underscores)
    IN  IF cleaned = <<>> \/ Len(cleaned) > 100 THEN <<>> ELSE cleaned

\* The length of the words the sanitizers are tried on, character by
\* character.
MaxWordLen == 3

\* Letters, capitals, Lithuanian letters, whitespace, the safe and the
\* unsafe punctuation.
SampleChars == {"a", "Z", "z_caron", "A_OGONEK", " ", "\t", "-", "_", "!"}

\* n times the letter a
Letters(n) == [i \in 1..n |-> "a"]

\* Words around the length limit: bare, and with whitespace and
\* punctuation that the sanitizers take away.
LongWords ==
    UNION {{ Letters(n),
             <<" ">> \o Letters(n) \o <<"!", " ">>,
             Letters(n - 1) \o <<" ">> \o <<"E_DOT">> } : n \in 99..102}

SanitizerInputs == SeqsUpTo(SampleChars, MaxWordLen) \cup LongWords

\* A caller has a word.
InitSanitize ==
    /\ CheckerIdle
    /\ GenerationIdle
    /\ WordlistIdle
    /\ given_word \in SanitizerInputs
    /\ sanitized = None

\* The word goes through the three sanitizers.
SanitizeWord ==
    /\ sanitized = None
    /\ sanitized' = Some([audio_utils |-> sanitize_lithuanian_word(given_word),
                          gen_audio   |-> sanitize_word(given_word),
                          outetts     |-> outetts_sanitize_lithuanian_word(given_word)])
    /\ UNCHANGED <<given_word, checker_vars, generation_vars, wordlist_vars>>

NextSanitize == SanitizeWord

SpecSanitize == InitSanitize /\ [][NextSanitize]_vars

word_Labas_rytas ==
    <<"L","a","b","a","s"," ","r","y","t","a","s">>
word_bang ==
    <<"!","!">>

-----------------------------------------------------------------------------
(* gen_audio.py, the OpenAI generation script (src/audio/gen_audio.py and   *)
(* the stand-alone src/gen_audio.py, which carries its own sanitizer).      *)

\* DEFAULT_MULTI_VOICES
DEFAULT_MULTI_VOICES == <<"onyx", "nova", "alloy">>

\* A path is <<directory, stem, extension>>; the directory under the output
\* directory is "" or the voice.  path.exists()
Exists(files, path) == path \in DOMAIN files

\* with open(file_path, 'wb') as f: f.write(content)
WriteFile(files, path, content) ==
    [q \in DOMAIN files \cup {path} |-> IF q = path THEN content ELSE files[q]]

\* sanitized_word of generate_audio: each script calls its own sanitizer,
\* and tests the result with "if not sanitized_word".
SanitizedWord(prog, w) ==
    IF prog = "src/gen_audio.py"
    THEN (IF sanitize_word(w) = None THEN <<>> ELSE sanitize_word(w)[1])
    ELSE sanitize_lithuanian_word(w)

\* file_path of generate_audio
FilePath(sanitized_word, voice, organize_by_voice) ==
    <<IF organize_by_voice THEN voice ELSE "", sanitized_word, ".mp3">>

\* Mutation: the file is regenerated whether it exists or not.
SkipExisting_Never(files, file_path, force) == FALSE

\* if file_path.exists() and not force
SkipExisting(files, file_path, force) == Exists(files, file_path) /\ ~force

\* What openai.audio.speech.create does: raise, or return content.
SynthesisOutcomes ==
    { [raises |-> TRUE, content |-> ""], [raises |-> FALSE, content |-> "new mp3"] }

\* Mutation: the output file is opened for writing before the request.
AfterFailedRequest_Truncated(files, file_path) == WriteFile(files, file_path, "")

\* except Exception: the request raised before the file was opened.
AfterFailedRequest(files, file_path) == files

\* Mutation: the sanitized word is not tested.
InvalidWord_Never(sanitized_word) == FALSE

\* if not sanitized_word
InvalidWord(sanitized_word) == sanitized_word = <<>>

\* generate_audio: the value returned (ok), the files afterwards, and what
\* the call did.
generate_audio(files, prog, w, voice, organize_by_voice, force, remote) ==
    LET sanitized_word == SanitizedWord(prog, w)
        file_path == FilePath(sanitized_word, voice, organize_by_voice)
        call == [word |-> w, voice |-> voice, path |-> file_path,
                 existed |-> Exists(files, file_path),
                 requested |-> FALSE, returned |-> None, wrote |-> FALSE, ok |-> FALSE]
    IN  IF InvalidWord(sanitized_word)
        THEN [files |-> files, call |-> [call EXCEPT !.existed = FALSE]]
        ELSE IF SkipExisting(files, file_path, force)
        THEN [files |-> files, call |-> [call EXCEPT !.ok = TRUE]]
        ELSE IF remote.raises
        THEN [files |-> AfterFailedRequest(files, file_path),
              call |-> [call EXCEPT !.requested = TRUE]]
        ELSE [files |-> WriteFile(files, file_path, remote.content),
              call |-> [call EXCEPT !.requested = TRUE, !.returned = Some(remote.content),
                                    !.wrote = TRUE, !.ok = TRUE]]

\* words of main: --word, else the lines of --batch
RunWords(a) ==
    IF a.word # None /\ a.word[1] # <<>> THEN <<a.word[1]>>
    ELSE IF a.batch # None THEN a.batch[1]
    ELSE <<>>

\* voices_to_use of main
VoicesToUse(a) ==
    IF a.multi_voice
    THEN (IF a.voices # None THEN a.voices[1] ELSE DEFAULT_MULTI_VOICES)
    ELSE <<a.voice>>

\* args.organize_by_voice after "if args.multi_voice"
OrganizeByVoice(a) == a.multi_voice \/ a.organize_by_voice

\* Mutation: the run fails only when nothing succeeded.
ExitStatus_AllFailed(successes, attempts) == IF successes = 0 THEN 1 ELSE 0

\* if total_success < total_attempts: sys.exit(1)
ExitStatus(successes, attempts) == IF successes < attempts THEN 1 ELSE 0

\* The number of words in a run's word list.
MaxWords == 2

GenWords == {word_duona, word_Labas_rytas, word_bang}

\* The files found in the output directory.
OldFiles ==
    { <<>>,
      [p \in {<<"", word_duona, ".mp3">>, <<"alloy", word_duona, ".mp3">>} |-> "old mp3"],
      [p \in {<<"nova", word_duona, ".mp3">>} |-> "old mp3"] }

CommandLine(prog, api_key, w, batch, multi_voice, voices, organize_by_voice, force) ==
    [prog |-> prog, api_key |-> api_key, word |-> w, batch |-> batch,
     multi_voice |-> multi_voice, voices |-> voices, voice |-> "alloy",
     organize_by_voice |-> organize_by_voice, force |-> force]

\* Runs that stop before the loop: no key, no --word and no --batch, --word
\* "", a batch file without words.
StoppedRuns ==
    UNION {{ CommandLine(prog, FALSE, Some(word_duona), None, FALSE, None, FALSE, FALSE),
             CommandLine(prog, TRUE, None, None, FALSE, None, FALSE, FALSE),
             CommandLine(prog, TRUE, Some(<<>>), None, TRUE, None, FALSE, TRUE),
             CommandLine(prog, TRUE, None, Some(<<>>), FALSE, None, TRUE, FALSE) } :
        prog \in {"src/audio/gen_audio.py", "src/gen_audio.py"}}

\* Runs of either script with one voice, plain or in the voice's
\* directory, and with --multi-voice --voices nova.
OneVoiceRuns ==
    { CommandLine(prog, TRUE, None, Some(l), v[1], v[2], v[3], force) :
        prog \in {"src/audio/gen_audio.py", "src/gen_audio.py"},
        l \in SeqsUpTo(GenWords, MaxWords) \ {<<>>},
        v \in { <<FALSE, None, FALSE>>, <<FALSE, None, TRUE>>,
                <<TRUE, Some(<<"nova">>), FALSE>> },
        force \in BOOLEAN }

\* Runs with --multi-voice and its default voices.
MultiVoiceRuns ==
    { CommandLine("src/audio/gen_audio.py", TRUE, None, Some(l), TRUE, None, FALSE, force) :
        l \in SeqsUpTo(GenWords, MaxWords) \ {<<>>}, force \in BOOLEAN }

LoopRuns == OneVoiceRuns \cup MultiVoiceRuns

\* The runs in which an interrupt is looked at: plain runs of either
\* script, and one that stops before its loop.
InterruptedRuns ==
    { a \in OneVoiceRuns : ~a.multi_voice /\ ~a.organize_by_voice }
    \cup { a \in StoppedRuns : ~a.api_key }

\* The script is started.
InitGen ==
    /\ CheckerIdle
    /\ SanitizerIdle
    /\ WordlistIdle
    /\ args \in StoppedRuns \cup LoopRuns
    /\ disk \in OldFiles
    /\ disk0 = disk
    /\ gen_pc = "main"
    /\ word_i = 1
    /\ voice_i = 1
    /\ success_count = 0
    /\ total_success = 0
    /\ total_attempts = 0
    /\ exit_status = None
    /\ calls = <<>>
    /\ interrupt = None

\* main up to the loop: the key and the words are looked for, and the
\* process exits with status 1 when either is missing.
MainStart ==
    /\ gen_pc = "main"
    /\ IF ~args.api_key \/ RunWords(args) = <<>>
       THEN exit_status' = Some(1) /\ gen_pc' = "exit"
       ELSE exit_status' = None /\ gen_pc' = "loop"
    /\ UNCHANGED <<interrupt, args, disk, disk0, word_i, voice_i, success_count,
                   total_success, total_attempts, calls>>
    /\ UNCHANGED <<checker_vars, sanitizer_vars, wordlist_vars>>

\* One generate_audio call of the loop of main, directly or within
\* generate_multi_voice_audio, whose counts are added after its last voice.
MainGenerateAudio ==
    /\ gen_pc = "loop"
    /\ word_i <= Len(RunWords(args))
    /\ \E remote \in SynthesisOutcomes :
        LET voices == VoicesToUse(args)
            r == generate_audio(disk, args.prog, RunWords(args)[word_i], voices[voice_i],
                                OrganizeByVoice(args), args.force, remote)
            counted == success_count + (IF r.call.ok THEN 1 ELSE 0)
        IN  /\ disk' = r.files
            /\ calls' = Append(calls, r.call)
            /\ IF voice_i < Len(voices)
               THEN /\ success_count' = counted
                    /\ voice_i' = voice_i + 1
                    /\ UNCHANGED <<word_i, total_success, total_attempts>>
               ELSE /\ total_success' = total_success + counted
                    /\ total_attempts' = total_attempts + Len(voices)
                    /\ success_count' = 0
                    /\ voice_i' = 1
                    /\ word_i' = word_i + 1
    /\ UNCHANGED <<interrupt, args, disk0, gen_pc, exit_status>>
    /\ UNCHANGED <<checker_vars, sanitizer_vars, wordlist_vars>>

\* The end of main: status 1 if a file was not generated, else a normal end.
MainExit ==
    /\ gen_pc = "loop"
    /\ word_i > Len(RunWords(args))
    /\ exit_status' = Some(ExitStatus(total_success, total_attempts))
    /\ gen_pc' = "exit"
    /\ UNCHANGED <<interrupt, args, disk, disk0, word_i, voice_i, success_count,
                   total_success, total_attempts, calls>>
    /\ UNCHANGED <<checker_vars, sanitizer_vars, wordlist_vars>>

NextGen ==
    \/ MainStart
    \/ MainGenerateAudio
    \/ MainExit

SpecGen == InitGen /\ [][NextGen]_vars

stem_audio_ ==
    <<"a","u","d","i","o","_">>

-----------------------------------------------------------------------------
(* genaudio_outetts.py, the OuteTTS generation script: the batch modes      *)
(* process_file and process_lithuanian_batch of src/audio/ and of the       *)
(* stand-alone src/genaudio_outetts.py.                                     *)

\* AUDIO_FORMATS: the extension of each format
AUDIO_FORMATS == [wav |-> ".wav", mp3 |-> ".mp3", ogg |-> ".ogg", flac |-> ".flac"]

\* AUDIO_FORMATS.get(output_format, {}).get("extension", ".wav")
TargetExtension(output_format) ==
    IF output_format \in DOMAIN AUDIO_FORMATS THEN AUDIO_FORMATS[output_format] ELSE ".wav"

\* output.save(output_path) after interface.generate: the WAV is written,
\* unless the generation failed.
SaveGenerated(files, wav_file, generated) ==
    IF generated THEN WriteFile(files, wav_file, "new wav") ELSE files

\* Whether process_file goes on to the next line without generating: the
\* stand-alone script has no such test.
SkipLine(files, prog, target_file, wav_file, force, output_format) ==
    IF prog = "src/genaudio_outetts.py" THEN FALSE
    ELSE \/ Exists(files, target_file) /\ ~force
         \/ Exists(files, wav_file) /\ ~force /\ output_format = "wav"

\* Whether process_lithuanian_batch counts the entry as done without
\* generating: the stand-alone script knows the WAV only.
SkipEntry(files, prog, target_file, wav_file, force) ==
    IF prog = "src/genaudio_outetts.py" THEN Exists(files, wav_file) /\ ~force
    ELSE \/ Exists(files, target_file) /\ ~force
         \/ Exists(files, wav_file) /\ ~force

\* The files found in the output directory of an OuteTTS run.
OldAudio ==
    LET first == stem_audio_ \o Digits(1)
    IN  { <<>>,
          [p \in {<<"", first, ".wav">>} |-> "old wav"],
          [p \in {<<"", first, ".mp3">>} |-> "old mp3"],
          [p \in {<<"", first, ".wav">>, <<"", first, ".flac">>} |->
              IF p[3] = ".wav" THEN "old wav" ELSE "old flac"],
          [p \in {<<"", word_duona, ".wav">>} |-> "old wav"],
          [p \in {<<"", word_duona, ".ogg">>} |-> "old ogg"],
          [p \in {<<"", word_duona, ".wav">>, <<"", word_duona, ".mp3">>} |->
              IF p[3] = ".wav" THEN "old wav" ELSE "old mp3"] }

\* --file or --lithuanian-batch with the lines read from the file, --force
\* and --format.
BatchRuns ==
    { [prog |-> prog, mode |-> mode, lines |-> l, force |-> force, format |-> f] :
        prog \in {"src/audio/genaudio_outetts.py", "src/genaudio_outetts.py"},
        mode \in {"file", "lithuanian_batch"},
        l \in SeqsUpTo(GenWords, MaxWords),
        force \in BOOLEAN,
        f \in DOMAIN AUDIO_FORMATS }

\* main has parsed the command line and calls the batch function.
InitOute ==
    /\ CheckerIdle
    /\ SanitizerIdle
    /\ WordlistIdle
    /\ args \in BatchRuns
    /\ disk \in OldAudio
    /\ disk0 = disk
    /\ gen_pc = "loop"
    /\ word_i = 1
    /\ voice_i = 1
    /\ success_count = 0
    /\ total_success = 0
    /\ total_attempts = 0
    /\ exit_status = None
    /\ calls = <<>>
    /\ interrupt = None

\* One iteration of the loop of process_file.  A failed generation raises
\* out of process_file and ends the loop.
ProcessFileLine ==
    /\ gen_pc = "loop"
    /\ args.mode = "file"
    /\ word_i <= Len(args.lines)
    /\ LET wav_file    == <<"", stem_audio_ \o Digits(word_i), ".wav">>
           target_file == <<"", stem_audio_ \o Digits(word_i), TargetExtension(args.format)>>
       IN  IF SkipLine(disk, args.prog, target_file, wav_file, args.force, args.format)
           THEN /\ word_i' = word_i + 1
                /\ UNCHANGED <<disk, calls, gen_pc>>
           ELSE \E generated \in BOOLEAN :
                /\ disk' = SaveGenerated(disk, wav_file, generated)
                /\ calls' = Append(calls, [path |-> wav_file, wrote |-> generated])
                /\ IF generated
                   THEN word_i' = word_i + 1 /\ gen_pc' = gen_pc
                   ELSE word_i' = word_i /\ gen_pc' = "exit"
    /\ UNCHANGED <<interrupt, args, disk0, voice_i, success_count, total_success,
                   total_attempts, exit_status>>
    /\ UNCHANGED <<checker_vars, sanitizer_vars, wordlist_vars>>

\* One iteration of the loop of process_lithuanian_batch.  A failed
\* generation is caught in generate_lithuanian_audio, which returns None.
ProcessLithuanianEntry ==
    /\ gen_pc = "loop"
    /\ args.mode = "lithuanian_batch"
    /\ word_i <= Len(args.lines)
    /\ LET entry       == args.lines[word_i]
           stem        == IF args.prog = "src/genaudio_outetts.py"
                          THEN outetts_sanitize_lithuanian_word(entry)
                          ELSE sanitize_lithuanian_word(entry)
           wav_file    == <<"", stem, ".wav">>
           target_file == IF args.prog = "src/genaudio_outetts.py" THEN wav_file
                          ELSE <<"", stem, TargetExtension(args.format)>>
       IN  IF stem = <<>>
           THEN UNCHANGED <<disk, calls, success_count>>
           ELSE IF SkipEntry(disk, args.prog, target_file, wav_file, args.force)
           THEN /\ success_count' = success_count + 1
                /\ UNCHANGED <<disk, calls>>
           ELSE \E generated \in BOOLEAN :
                /\ disk' = SaveGenerated(disk, wav_file, generated)
                /\ calls' = Append(calls, [path |-> wav_file, wrote |-> generated])
                /\ success_count' = success_count + (IF generated THEN 1 ELSE 0)
    /\ word_i' = word_i + 1
    /\ UNCHANGED <<interrupt, args, disk0, gen_pc, voice_i, total_success, total_attempts, exit_status>>
    /\ UNCHANGED <<checker_vars, sanitizer_vars, wordlist_vars>>

\* The loop is over and the batch function returns.
ProcessReturn ==
    /\ gen_pc = "loop"
    /\ word_i > Len(args.lines)
    /\ gen_pc' = "exit"
    /\ UNCHANGED <<interrupt, args, disk, disk0, word_i, voice_i, success_count, total_success,
                   total_attempts, exit_status, calls>>
    /\ UNCHANGED <<checker_vars, sanitizer_vars, wordlist_vars>>

\* The end of main: after the batch function returned, or after an
\* exception or an interrupt was caught and reported, "Done!" is printed and
\* main returns; the script calls sys.exit nowhere, so the status is 0.
MainDone ==
    /\ gen_pc = "exit"
    /\ exit_status = None
    /\ exit_status' = Some(0)
    /\ UNCHANGED <<interrupt, args, disk, disk0, gen_pc, word_i, voice_i, success_count,
                   total_success, total_attempts, calls>>
    /\ UNCHANGED <<checker_vars, sanitizer_vars, wordlist_vars>>

NextOute ==
    \/ ProcessFileLine
    \/ ProcessLithuanianEntry
    \/ ProcessReturn
    \/ MainDone

SpecOute == InitOute /\ [][NextOute]_vars

-----------------------------------------------------------------------------
(* A user interrupt (Ctrl-C) during a run of a generation script.           *)

OpenAIScripts == {"src/audio/gen_audio.py", "src/gen_audio.py"}

\* KeyboardInterrupt is raised in the running script.  It is no Exception,
\* so no "except Exception" clause catches it.  main of genaudio_outetts.py
\* catches it in "except KeyboardInterrupt" and goes on to its end; main of
\* gen_audio.py has no such clause: the interrupt leaves main, the
\* interpreter prints the traceback and the process ends by SIGINT, which a
\* shell reports as status 130.
KeyboardInterrupt ==
    /\ gen_pc \in {"main", "loop"}
    /\ interrupt = None
    /\ interrupt' = Some([caught |-> args.prog \notin OpenAIScripts,
                          word_i |-> word_i, voice_i |-> voice_i, calls |-> Len(calls)])
    /\ gen_pc' = "exit"
    /\ exit_status' = IF args.prog \in OpenAIScripts THEN Some(130) ELSE None
    /\ UNCHANGED <<args, disk, disk0, word_i, voice_i, success_count,
                   total_success, total_attempts, calls>>
    /\ UNCHANGED <<checker_vars, sanitizer_vars, wordlist_vars>>

\* A run of either kind of script.
InitInterrupt ==
    \/ InitGen /\ args \in InterruptedRuns
    \/ InitOute

NextInterrupt ==
    \/ args.prog \in OpenAIScripts /\ NextGen
    \/ args.prog \notin OpenAIScripts /\ NextOute
    \/ KeyboardInterrupt

SpecInterrupt == InitInterrupt /\ [][NextInterrupt]_vars

-----------------------------------------------------------------------------
(* convert_audio of genaudio_outetts.py (the same text in both scripts).    *)

\* input_path.unlink()
Remove(files, path) == [q \in DOMAIN files \ {path} |-> files[q]]

\* quality_settings.get(output_format, {}).get(quality, "medium")
QualityValue(output_format, quality) ==
    LET quality_settings ==
            [mp3  |-> [low |-> "96k", medium |-> "128k", high |-> "192k"],
             ogg  |-> [low |-> "3", medium |-> "5", high |-> "7"],
             flac |-> [low |-> "1", medium |-> "5", high |-> "8"]]
    IN  IF output_format \in DOMAIN quality_settings
           /\ quality \in DOMAIN quality_settings[output_format]
        THEN quality_settings[output_format][quality]
        ELSE "medium"

\* What the two converters do when called.  soundfile: converts, fails on
\* reading, or fails while writing and leaves a partial output file.
\* ffmpeg: exits with 0, exits with an error, or cannot be started.
ConverterOutcomes ==
    [soundfile : {"ok", "read fails", "write fails"},
     ffmpeg    : {"ok", "error", "not installed"}]

\* convert_audio: the value returned and the files afterwards.  A converted
\* file holds the name of its converter or the encoder parameter it was
\* made with.  ffmpeg ends with an error when its output file is its input
\* file; with an empty command (format "wav") subprocess.run raises.
convert_audio(files, input_path, output_format, quality, delete_original, tools) ==
    IF output_format \notin DOMAIN AUDIO_FORMATS
    THEN [files |-> files, returned |-> None]
    ELSE IF ~Exists(files, input_path)
    THEN [files |-> files, returned |-> None]
    ELSE
      LET output_path == <<input_path[1], input_path[2], AUDIO_FORMATS[output_format]>>
          by_soundfile == WriteFile(files, output_path, "soundfile")
          tried == IF output_format \in {"flac", "ogg"} /\ tools.soundfile = "write fails"
                   THEN WriteFile(files, output_path, "partial")
                   ELSE files
          by_ffmpeg == WriteFile(tried, output_path, QualityValue(output_format, quality))
      IN  IF output_format \in {"flac", "ogg"} /\ tools.soundfile = "ok"
          THEN [files |-> IF delete_original THEN Remove(by_soundfile, input_path)
                          ELSE by_soundfile,
                returned |-> Some(output_path)]
          ELSE IF output_format = "wav" \/ tools.ffmpeg = "not installed"
          THEN [files |-> tried, returned |-> None]
          ELSE IF tools.ffmpeg = "error" \/ output_path = input_path
          THEN [files |-> tried, returned |-> None]
          ELSE [files |-> IF delete_original THEN Remove(by_ffmpeg, input_path)
                          ELSE by_ffmpeg,
                returned |-> Some(output_path)]

\* The files a conversion finds.
AudioToConvert ==
    { <<>>,
      [p \in {<<"", word_duona, ".wav">>} |-> "old wav"],
      [p \in {<<"", word_duona, ".wav">>, <<"", word_duona, ".mp3">>} |->
          IF p[3] = ".wav" THEN "old wav" ELSE "old mp3"],
      [p \in {<<"", word_duona, ".flac">>, <<"", word_namas, ".wav">>} |->
          IF p[3] = ".wav" THEN "old wav" ELSE "old flac"] }

\* The calls of convert_audio looked at.
Conversions ==
    [input_path      : {<<"", word_duona, ".wav">>, <<"", word_duona, ".flac">>,
                        <<"", word_namas, ".wav">>},
     output_format   : {"wav", "mp3", "ogg", "flac", "aac"},
     quality         : {"low", "medium", "best"},
     delete_original : BOOLEAN]

\* A caller is about to call convert_audio.
InitConvert ==
    /\ CheckerIdle
    /\ SanitizerIdle
    /\ WordlistIdle
    /\ args \in Conversions
    /\ disk \in AudioToConvert
    /\ disk0 = disk
    /\ gen_pc = "convert"
    /\ word_i = 1
    /\ voice_i = 1
    /\ success_count = 0
    /\ total_success = 0
    /\ total_attempts = 0
    /\ exit_status = None
    /\ calls = <<>>
    /\ interrupt = None

\* The call of convert_audio.
ConvertAudio ==
    /\ gen_pc = "convert"
    /\ \E tools \in ConverterOutcomes :
        LET r == convert_audio(disk, args.input_path, args.output_format, args.quality,
                               args.delete_original, tools)
        IN  /\ disk' = r.files
            /\ calls' = Append(calls, [returned |-> r.returned])
    /\ gen_pc' = "returned"
    /\ UNCHANGED <<interrupt, args, disk0, word_i, voice_i, success_count,
                   total_success, total_attempts, exit_status>>
    /\ UNCHANGED <<checker_vars, sanitizer_vars, wordlist_vars>>

NextConvert == ConvertAudio

SpecConvert == InitConvert /\ [][NextConvert]_vars

-----------------------------------------------------------------------------
(* wordlists.py: get_all_word_pairs_flat and check_for_duplicates.  A dict  *)
(* is a function with its keys as domain; all_words, whose order of         *)
(* insertion decides the order of the flat list, is a sequence of corpora,  *)
(* each a sequence of groups, each a sequence of word pairs.                *)

\* flat_words of get_all_word_pairs_flat: the word pairs in the order of
\* the corpora, groups and pairs, each with its corpus and group.
get_all_word_pairs_flat(tables) ==
    Concat([c \in 1..Len(tables) |->
        Concat([g \in 1..Len(tables[c].groups) |->
            [k \in 1..Len(tables[c].groups[g].word_pairs) |->
                [english    |-> tables[c].groups[g].word_pairs[k].english,
                 lithuanian |-> tables[c].groups[g].word_pairs[k].lithuanian,
                 corpus     |-> tables[c].name,
                 group      |-> tables[c].groups[g].name]]])])

\* Mutation: a copy of the list of translations is stored.
SemanticValue_Copy(translations) == SubSeq(translations, 1, 2)

\* semantic_duplicates[english] = word_translations[english] stores the
\* list object itself: the value read after the loop is the list with all
\* that was appended to it since.
SemanticValue(translations) == translations

\* One iteration of the loop of check_for_duplicates.  semantic_keys are
\* the keys of semantic_duplicates.
CheckStep(st, word_pair) ==
    LET english    == word_pair.english
        lithuanian == word_pair.lithuanian
        seen       == english \in DOMAIN st.word_count
        word_count == [w \in DOMAIN st.word_count \cup {english} |->
                          IF w # english THEN st.word_count[w]
                          ELSE IF seen THEN st.word_count[w] + 1 ELSE 1]
        known      == seen /\ \E i \in 1..Len(st.word_translations[english]) :
                                  st.word_translations[english][i] = lithuanian
        word_translations ==
            [w \in DOMAIN st.word_translations \cup {english} |->
                IF w # english THEN st.word_translations[w]
                ELSE IF ~seen THEN <<lithuanian>>
                ELSE IF known THEN st.word_translations[w]
                ELSE Append(st.word_translations[w], lithuanian)]
    IN  [word_count        |-> word_count,
         word_translations |-> word_translations,
         exact_duplicates  |-> IF seen /\ word_count[english] = 2
                               THEN Append(st.exact_duplicates, english)
                               ELSE st.exact_duplicates,
         semantic_keys     |-> IF seen /\ ~known /\ Len(word_translations[english]) = 2
                               THEN st.semantic_keys \cup {english}
                               ELSE st.semantic_keys]

RECURSIVE CheckLoop(_, _)
\* for word_pair in flat_words
CheckLoop(st, flat_words) ==
    IF flat_words = <<>> THEN st
    ELSE CheckLoop(CheckStep(st, Head(flat_words)), Tail(flat_words))

\* check_for_duplicates: (exact_duplicates, semantic_duplicates)
check_for_duplicates(tables) ==
    LET st == CheckLoop([word_count |-> <<>>, word_translations |-> <<>>,
                         exact_duplicates |-> <<>>, semantic_keys |-> {}],
                        get_all_word_pairs_flat(tables))
    IN  [exact_duplicates    |-> st.exact_duplicates,
         semantic_duplicates |->
             [w \in st.semantic_keys |-> SemanticValue(st.word_translations[w])]]

\* The number of word pairs in the tables.
MaxPairs == 4

WordPairs ==
    [english : {"bank", "cat"}, lithuanian : {"bankas", "krantas", "kate"}]

\* Tables of two corpora of one group each: the first cut pairs are in
\* the first corpus, the others in the second.
WordTable(l, cut) ==
    << [name |-> "nouns_one",
        groups |-> <<[name |-> "Places", word_pairs |-> SubSeq(l, 1, cut)]>>],
       [name |-> "common_words",
        groups |-> <<[name |-> "Animals", word_pairs |-> SubSeq(l, cut + 1, Len(l))]>>] >>

\* A caller is about to call check_for_duplicates.
InitWordlists ==
    /\ CheckerIdle
    /\ SanitizerIdle
    /\ GenerationIdle
    /\ \E n \in 0..MaxPairs :
          \E l \in [1..n -> WordPairs], cut \in 0..n : all_words = WordTable(l, cut)
    /\ duplicates = None

\* exact_duplicates, semantic_duplicates = check_for_duplicates()
CheckForDuplicates ==
    /\ duplicates = None
    /\ duplicates' = Some(check_for_duplicates(all_words))
    /\ UNCHANGED <<all_words, checker_vars, sanitizer_vars, generation_vars>>

NextWordlists == CheckForDuplicates

SpecWordlists == InitWordlists /\ [][NextWordlists]_vars

-----------------------------------------------------------------------------
(* Properties.                                                              *)

ItemPath(i) == audio_files[i][1]

ItemWord(i) == audio_files[i][2]

\* The requests sent for item i of the batch.
RequestsFor(i) == {k \in 1..Len(requests) : requests[k].item = i}

StartsWith(s, prefix) ==
    Len(s) >= Len(prefix) /\ SubSeq(s, 1, Len(prefix)) = prefix

BatchReturned == pc \in {"done", "summarized"}

\* The file of item i exceeds the maximum size.
Oversized(i) ==
    /\ fs[ItemPath(i)].exists
    /\ fs[ItemPath(i)].st_size > MAX_AUDIO_SIZE_MB * BytesPerMB

\* check_audio_file sent a request for item i and then raised.
FailedAfterRequest(i) == RequestsFor(i) # {} /\ raised[i] # NoExc

\* C1: batch_check_audio_files returns exactly one result per input item, in
\* input order, whichever analyses fail: the results built so far pair up
\* with the items processed so far, the result at position i carries the
\* expected word of item i, and the returned list is as long as the input.
C1_OneResultPerItemInOrder ==
    /\ Len(results) = idx - 1
    /\ Len(results) <= Len(audio_files)
    /\ \A i \in 1..Len(results) : results[i].expected_word = ItemWord(i)
    /\ BatchReturned => Len(results) = Len(audio_files)

\* A returned two-item batch with different words whose first analysis
\* failed and whose second succeeded.
C1_Witness ==
    /\ pc = "done"
    /\ Len(audio_files) = 2
    /\ ItemWord(1) # ItemWord(2)
    /\ raised[1] # NoExc
    /\ raised[2] = NoExc
    /\ results[2].expected_word = ItemWord(2)

\* C2: an exception raised by an item's check_audio_file becomes a synthetic
\* result (not correct, confidence 0.0, empty transcript, no issues, a
\* non-empty detailed_feedback containing the error text, one suggestion),
\* and the batch goes on: check_audio_file runs for every item, and every
\* item whose file passes the local checks gets its request.
C2_FailureBecomesErrorResult ==
    /\ \A i \in 1..Len(raised) :
          raised[i] # NoExc =>
              /\ results[i].is_word_correct = FALSE
              /\ results[i].confidence_score = 0
              /\ results[i].transcript = <<>>
              /\ results[i].detected_issues = <<>>
              /\ results[i].detailed_feedback # <<>>
              /\ raised[i].msg # <<>>
              /\ Contains(results[i].detailed_feedback, raised[i].msg)
              /\ Len(results[i].suggestions) = 1
    /\ BatchReturned =>
          /\ Len(raised) = Len(audio_files)
          /\ \A i \in 1..Len(audio_files) :
                LET file == fs[ItemPath(i)]
                IN  (file.exists /\ file.readable
                     /\ file.st_size <= MAX_AUDIO_SIZE_MB * BytesPerMB)
                    => RequestsFor(i) # {}

\* A returned batch whose first item's file is missing and whose second item
\* was sent to the remote service and analysed.
C2_Witness ==
    /\ pc = "done"
    /\ Len(audio_files) = 2
    /\ raised[1].kind = "FileNotFoundError"
    /\ results[1].confidence_score = 0
    /\ RequestsFor(2) # {}
    /\ raised[2] = NoExc
    /\ results[2].is_word_correct

\* C3: check_audio_file on a path that does not exist raises
\* FileNotFoundError, a class no other failure of the call has, and sends no
\* request; every request sent is for a file that exists.
C3_MissingFileNotFoundNoRequest ==
    /\ \A i \in 1..Len(raised) :
          /\ ~fs[ItemPath(i)].exists =>
                raised[i].kind = "FileNotFoundError" /\ RequestsFor(i) = {}
          /\ fs[ItemPath(i)].exists => raised[i].kind # "FileNotFoundError"
    /\ \A k \in 1..Len(requests) : fs[requests[k].audio_path].exists

\* An item with a missing file has been processed in a batch that also sent
\* a request for another item.
C3_Witness ==
    /\ requests # <<>>
    /\ \E i \in 1..Len(raised) :
          /\ ~fs[ItemPath(i)].exists
          /\ raised[i].kind = "FileNotFoundError"
          /\ RequestsFor(i) = {}

\* C4: once the request is sent, whatever the remote call raises, and
\* whatever fails while its response is handled, leaves check_audio_file as
\* a ValueError whose message is "Error analyzing audio: " followed by the
\* original message; no other class leaves that phase.
C4_RemotePhaseRaisesOnlyAnalysisError ==
    \A k \in 1..Len(responses) :
        LET i == requests[k].item
        IN  /\ responses[k].exc # NoExc =>
                  raised[i] = Exc("ValueError",
                                  msg_error_analyzing_audio \o responses[k].exc.msg)
            /\ raised[i] # NoExc =>
                  /\ raised[i].kind = "ValueError"
                  /\ StartsWith(raised[i].msg, msg_error_analyzing_audio)
                  /\ Len(raised[i].msg) > Len(msg_error_analyzing_audio)

\* The remote call raised for one request, and the response to another
\* could not be handled.
C4_Witness ==
    /\ \E k \in 1..Len(responses) :
          /\ responses[k].exc.kind = "APIConnectionError"
          /\ raised[requests[k].item].kind = "ValueError"
    /\ \E k \in 1..Len(responses) :
          /\ responses[k].exc = NoExc
          /\ raised[requests[k].item].kind = "ValueError"

\* C5 as stated: an oversized file fails before any request, with an error
\* of a class different from the one raised for failures of the remote call.
C5_Original_OversizedKindDiffers ==
    \A i \in 1..Len(raised) :
        Oversized(i) =>
            /\ raised[i] # NoExc
            /\ RequestsFor(i) = {}
            /\ \A j \in 1..Len(raised) :
                  FailedAfterRequest(j) => raised[j].kind # raised[i].kind

\* C5 amended: an oversized file fails before any request with a ValueError
\* whose message starts "Audio file too large: "; that is the class of the
\* errors raised for failures of the remote call too, which differ from it
\* by their message only; it is not the class raised for a missing file.
C5_OversizedRaisesValueErrorNoRequest ==
    \A i \in 1..Len(raised) :
        Oversized(i) =>
            /\ raised[i].kind = "ValueError"
            /\ raised[i].kind # "FileNotFoundError"
            /\ StartsWith(raised[i].msg, msg_too_large)
            /\ RequestsFor(i) = {}
            /\ \A j \in 1..Len(raised) :
                  FailedAfterRequest(j) =>
                      /\ raised[j].kind = raised[i].kind
                      /\ ~StartsWith(raised[j].msg, msg_too_large)

\* An oversized item and an item whose remote call failed, in one batch.
C5_Witness ==
    /\ \E i \in 1..Len(raised) : Oversized(i) /\ raised[i].kind = "ValueError"
    /\ \E j \in 1..Len(raised) : FailedAfterRequest(j)

\* C6: get_quality_summary of the empty list is the "no results" marker;
\* of a non-empty list it is a summary whose total_files is the length.
C6_SummaryEmptyMarkerElseTotal ==
    pc = "summarized" =>
        /\ summary # NoSummary
        /\ results = <<>> => summary[1] = [error |-> msg_no_results]
        /\ results # <<>> =>
              /\ "error" \notin DOMAIN summary[1]
              /\ summary[1].total_files = Len(results)

\* The summary of the empty list has been computed.
C6_Witness ==
    /\ pc = "summarized"
    /\ results = <<>>
    /\ summary = Some([error |-> msg_no_results])

\* C7: correct_words is the number of results with is_word_correct true and
\* word_accuracy_rate is correct_words / number of results.
C7_AccuracyRate ==
    (pc = "summarized" /\ results # <<>>) =>
        LET correct == Cardinality({i \in 1..Len(results) : results[i].is_word_correct})
            rate == summary[1].word_accuracy_rate
        IN  /\ summary[1].correct_words = correct
            /\ rate[2] > 0
            /\ rate[1] * Len(results) = correct * rate[2]

\* A summary of three results: a synthetic failure result, a correct result
\* with an issue, an incorrect one; the rate is 1/3.
C7_Witness ==
    /\ pc = "summarized"
    /\ Len(results) = 3
    /\ \E i \in 1..3 : results[i].detailed_feedback
                          = msg_error_analyzing_file \o msg_not_found \o path_a
    /\ \E i \in 1..3 : results[i].is_word_correct /\ results[i].detected_issues # <<>>
    /\ summary[1].correct_words = 1
    /\ summary[1].word_accuracy_rate = <<1, 3>>

\* C8: average_confidence is the sum of all confidence scores divided by the
\* number of results; a synthetic failure result adds 0.0 and is counted.
C8_AverageConfidence ==
    (pc = "summarized" /\ results # <<>>) =>
        LET total == Sum([i \in 1..Len(results) |-> results[i].confidence_score])
            avg == summary[1].average_confidence
        IN  /\ avg[2] > 0
            /\ avg[1] * Len(results) = total * avg[2]

\* A summary over a synthetic failure result and two results of confidence
\* 0.9: the mean is 1.8 / 3 = 0.6, not 0.9.
C8_Witness ==
    /\ pc = "summarized"
    /\ Len(results) = 3
    /\ Cardinality({i \in 1..3 : results[i].confidence_score = 90}) = 2
    /\ \E i \in 1..3 :
          /\ results[i].confidence_score = 0
          /\ StartsWith(results[i].detailed_feedback, msg_error_analyzing_file)
    /\ summary[1].average_confidence = <<60, 1>>

\* Occurrences of issue kind x in the detected_issues of all results.
Occurrences(x) ==
    Cardinality(UNION {
        {<<i, j>> : j \in {n \in 1..Len(results[i].detected_issues) :
                              results[i].detected_issues[n] = x}} :
        i \in 1..Len(results)})

\* C9: common_issues lists exactly the issue kinds that occur in some
\* result, each once with its number of occurrences over all results, in
\* non-increasing order of count.
C9_CommonIssuesHistogram ==
    (pc = "summarized" /\ results # <<>>) =>
        LET hist == summary[1].common_issues
            kinds == {x \in AudioQualityIssue : Occurrences(x) > 0}
        IN  /\ {hist[i][1] : i \in 1..Len(hist)} = kinds
            /\ Len(hist) = Cardinality(kinds)
            /\ \A i \in 1..Len(hist) : hist[i][2] = Occurrences(hist[i][1])
            /\ \A i \in 1..(Len(hist) - 1) : hist[i][2] >= hist[i + 1][2]

\* A histogram of three kinds in which the sort moved a kind seen later in
\* front of one seen earlier.
C9_Witness ==
    /\ pc = "summarized"
    /\ results # <<>>
    /\ Len(summary[1].common_issues) = 3
    /\ summary[1].common_issues[1] = <<BACKGROUND_NOISE, 2>>
    /\ summary[1].common_issues[2][2] = 1
    /\ results[1].detected_issues = <<AUDIBLE_BREATH>>

SixFields ==
    {s_is_word_correct, s_confidence_score, s_transcript, s_detected_issues,
     s_detailed_feedback, s_suggestions}

\* The text of the first choice of response k.
ResponseText(k) == responses[k].choices[1][1]

\* Response k carries a text.
HasText(k) ==
    /\ responses[k].exc = NoExc
    /\ responses[k].choices # <<>>
    /\ responses[k].choices[1] # None

FirstOpen(text) ==
    CHOOSE a \in 1..Len(text) :
        text[a] = LBrace /\ \A j \in 1..(a - 1) : text[j] # LBrace

LastClose(text) ==
    CHOOSE b \in 1..Len(text) :
        text[b] = RBrace /\ \A j \in (b + 1)..Len(text) : text[j] # RBrace

\* The text holds a valid JSON object from its first '{' to its last '}'.
HoldsObject(text) ==
    /\ \E a \in 1..Len(text) : text[a] = LBrace
    /\ \E b \in 1..Len(text) : text[b] = RBrace
    /\ FirstOpen(text) < LastClose(text)
    /\ IsJson(SubSeq(text, FirstOpen(text), LastClose(text)))

\* The positions of the members of that object with the given key.
MembersOf(text, key) ==
    {i \in FirstOpen(text)..LastClose(text) :
        text[i].kind = "member" /\ text[i].key = key}

\* The value the object gives the key: that of its last such member.
ObjectValue(text, key) ==
    LET at == MembersOf(text, key)
    IN  text[CHOOSE i \in at : \A j \in at : j <= i].val

\* C10: when the response text holds a valid JSON object, from the first
\* '{' to the last '}', with all six fields (its detected_issues a list of
\* tokens), check_audio_file returns a result whose is_word_correct,
\* confidence_score, transcript, detailed_feedback and suggestions are the
\* object's values and whose detected_issues are the object's tokens that
\* are members of the enumeration, in order.
C10_FullObjectDecoded ==
    \A k \in 1..Len(responses) :
        (/\ HasText(k)
         /\ HoldsObject(ResponseText(k))
         /\ \A key \in SixFields : MembersOf(ResponseText(k), key) # {}
         /\ ObjectValue(ResponseText(k), s_detected_issues).ty = "list")
        => LET i == requests[k].item
               text == ResponseText(k)
           IN  /\ raised[i] = NoExc
               /\ results[i].is_word_correct = ObjectValue(text, s_is_word_correct).b
               /\ results[i].confidence_score = ObjectValue(text, s_confidence_score).n
               /\ results[i].transcript = ObjectValue(text, s_transcript).s
               /\ results[i].detailed_feedback = ObjectValue(text, s_detailed_feedback).s
               /\ results[i].suggestions = ObjectValue(text, s_suggestions).l
               /\ results[i].detected_issues =
                      SelectSeq(ObjectValue(text, s_detected_issues).l,
                                LAMBDA t : t \in AudioQualityIssue)

\* The response is prose around an object with all six fields, an unknown
\* issue token among its issues; the result carries the object's values.
C10_Witness ==
    /\ Len(responses) = 1
    /\ HasText(1)
    /\ ResponseText(1) = <<Word(word_result), Space, LBrace>> \o IssueBody
                         \o <<RBrace, Space, Word(word_done)>>
    /\ raised[1] = NoExc
    /\ results[1].confidence_score = 50
    /\ results[1].transcript = word_namas
    /\ results[1].detected_issues = <<AUDIBLE_BREATH, BACKGROUND_NOISE, AUDIBLE_BREATH>>

\* The object of response k lacks the key.
Absent(k, key) == MembersOf(ResponseText(k), key) = {}

\* Response k is a text holding a valid JSON object whose detected_issues,
\* when given, is a list.
DecodesObject(k) ==
    /\ HasText(k)
    /\ HoldsObject(ResponseText(k))
    /\ (~Absent(k, s_detected_issues)
        => ObjectValue(ResponseText(k), s_detected_issues).ty = "list")

\* The result for response k takes every field but detailed_feedback from
\* the object when present, and else the default of that field.
FieldsTakenOrDefaulted(k) ==
    LET i == requests[k].item
        text == ResponseText(k)
    IN  /\ raised[i] = NoExc
        /\ results[i].is_word_correct =
              (IF Absent(k, s_is_word_correct) THEN FALSE
               ELSE ObjectValue(text, s_is_word_correct).b)
        /\ results[i].confidence_score =
              (IF Absent(k, s_confidence_score) THEN 50
               ELSE ObjectValue(text, s_confidence_score).n)
        /\ results[i].transcript =
              (IF Absent(k, s_transcript) THEN <<>>
               ELSE ObjectValue(text, s_transcript).s)
        /\ results[i].detected_issues =
              (IF Absent(k, s_detected_issues) THEN <<>>
               ELSE SelectSeq(ObjectValue(text, s_detected_issues).l,
                              LAMBDA t : t \in AudioQualityIssue))
        /\ results[i].suggestions =
              (IF Absent(k, s_suggestions) THEN <<>>
               ELSE ObjectValue(text, s_suggestions).l)
        /\ ~Absent(k, s_detailed_feedback) =>
              results[i].detailed_feedback = ObjectValue(text, s_detailed_feedback).s

\* C11 as stated: each absent field is defaulted on its own, is_word_correct
\* to false, confidence_score to 0.5, transcript to "", detected_issues and
\* suggestions to [], detailed_feedback to the raw response text; a field
\* that is present is left as supplied.
C11_Original_DefaultFeedbackIsRawText ==
    \A k \in 1..Len(responses) :
        DecodesObject(k) =>
            /\ FieldsTakenOrDefaulted(k)
            /\ Absent(k, s_detailed_feedback) =>
                  results[requests[k].item].detailed_feedback = Flatten(ResponseText(k))

\* C11 amended: as stated, except that the default of detailed_feedback is
\* the response text with its leading and trailing whitespace stripped.
C11_AbsentFieldsDefaulted ==
    \A k \in 1..Len(responses) :
        DecodesObject(k) =>
            /\ FieldsTakenOrDefaulted(k)
            /\ Absent(k, s_detailed_feedback) =>
                  results[requests[k].item].detailed_feedback
                      = Flatten(strip(ResponseText(k)))

\* An object between whitespace that gives only a transcript: the other
\* five fields are defaulted, detailed_feedback to the stripped text.
C11_Witness ==
    /\ Len(responses) = 1
    /\ HasText(1)
    /\ ResponseText(1) = <<Space, LBrace, Member(s_transcript, JStr(word_duona)),
                           RBrace, Space, Space>>
    /\ raised[1] = NoExc
    /\ results[1].transcript = word_duona
    /\ results[1].confidence_score = 50
    /\ ~results[1].is_word_correct
    /\ results[1].detailed_feedback
          = Flatten(<<LBrace, Member(s_transcript, JStr(word_duona)), RBrace>>)
    /\ results[1].detailed_feedback # Flatten(ResponseText(1))

\* C12: a response text without a '{' followed by a later '}', or whose span
\* from the first '{' to the last '}' is not valid JSON, does not make
\* check_audio_file raise: the result is the heuristic parser's (confidence
\* 0.5, its one fixed suggestion, the expected word or "unclear" as
\* transcript).
C12_MalformedResponseFallsBack ==
    \A k \in 1..Len(responses) :
        (HasText(k) /\ ~HoldsObject(ResponseText(k))) =>
            LET i == requests[k].item
            IN  /\ raised[i] = NoExc
                /\ results[i].confidence_score = 50
                /\ results[i].suggestions = <<msg_review_feedback>>
                /\ results[i].transcript \in {ItemWord(i), kw_unclear}
                /\ results[i].detailed_feedback = Flatten(strip(ResponseText(k)))

\* The span from the first '{' to the last '}' holds prose after the
\* members: no object, and the result comes from the heuristic parser.
C12_Witness ==
    /\ Len(responses) = 1
    /\ HasText(1)
    /\ ResponseText(1) = <<LBrace>> \o FullBody
                         \o <<Word(word_Incorrect), Word(word_breath), RBrace>>
    /\ raised[1] = NoExc
    /\ results[1].suggestions = <<msg_review_feedback>>
    /\ results[1].transcript = kw_unclear

\* The response of request k took the heuristic path.
FellBack(k) == HasText(k) /\ ~HoldsObject(ResponseText(k))

\* The response text of request k as the case-insensitive tests see it.
Lowered(k) == lower(Flatten(ResponseText(k)))

SaysCorrect(k) == Contains(Lowered(k), kw_correct) /\ ~Contains(Lowered(k), kw_incorrect)

Mentions(k, issue) ==
    CASE issue = AUDIBLE_BREATH   -> Contains(Lowered(k), kw_breath)
      [] issue = BACKGROUND_NOISE -> Contains(Lowered(k), kw_noise)
      [] issue = MOUTH_SOUNDS     -> Contains(Lowered(k), kw_mouth)
                                     \/ Contains(Lowered(k), kw_smack)
      [] issue = DISTORTION       -> Contains(Lowered(k), kw_distort)
      [] issue = UNCLEAR_SPEECH   -> Contains(Lowered(k), kw_unclear)
                                     \/ Contains(Lowered(k), kw_mumbl)
      [] OTHER                    -> FALSE

FallbackOrder ==
    <<AUDIBLE_BREATH, BACKGROUND_NOISE, MOUTH_SOUNDS, DISTORTION, UNCLEAR_SPEECH>>

\* C14: in the heuristic fallback detected_issues holds audible_breath iff
\* the text holds "breath", background_noise iff "noise", mouth_sounds iff
\* "mouth" or "smack", distortion iff "distort", unclear_speech iff
\* "unclear" or "mumbl" (case-insensitive), each at most once, in that
\* order, and nothing else; the conversion to the enumeration loses none.
C14_FallbackIssuesFromKeywords ==
    \A k \in 1..Len(responses) :
        FellBack(k) =>
            results[requests[k].item].detected_issues
                = SelectSeq(FallbackOrder, LAMBDA issue : Mentions(k, issue))

\* "NOISE smacking Mumbled": three kinds, each by its second keyword or in
\* capitals, in the fixed order.
C14_Witness ==
    /\ Len(responses) = 1
    /\ FellBack(1)
    /\ ResponseText(1) = <<Word(word_NOISE), Word(word_smacking), Word(word_Mumbled)>>
    /\ results[1].detected_issues = <<BACKGROUND_NOISE, MOUTH_SOUNDS, UNCLEAR_SPEECH>>

\* The issue tokens the object of response k lists.
ListedTokens(k) == ObjectValue(ResponseText(k), s_detected_issues).l

\* C15: detected_issues is the response's list of issue tokens without the
\* tokens outside the eight-member enumeration, the recognised ones in
\* their order with their duplicates; dropping a token raises nothing and
\* leaves every other field as the response gives it.
C15_UnknownIssueTokensDropped ==
    /\ Cardinality(AudioQualityIssue) = 8
    /\ \A k \in 1..Len(responses) :
           (DecodesObject(k) /\ ~Absent(k, s_detected_issues)) =>
               LET i == requests[k].item
                   kept == {j \in 1..Len(ListedTokens(k)) :
                               ListedTokens(k)[j] \in AudioQualityIssue}
                   nth(n) == CHOOSE j \in kept : Cardinality({h \in kept : h < j}) = n - 1
               IN  /\ raised[i] = NoExc
                   /\ results[i].detected_issues
                          = [n \in 1..Cardinality(kept) |-> ListedTokens(k)[nth(n)]]
                   /\ FieldsTakenOrDefaulted(k)

\* A bare object listing breath, an unknown token, noise and breath again:
\* three issues are kept, the other fields are the object's.
C15_Witness ==
    /\ Len(responses) = 1
    /\ DecodesObject(1)
    /\ ResponseText(1) = <<LBrace>> \o IssueBody \o <<RBrace>>
    /\ tok_robotic_artifact \in {ListedTokens(1)[j] : j \in 1..Len(ListedTokens(1))}
    /\ raised[1] = NoExc
    /\ results[1].detected_issues = <<AUDIBLE_BREATH, BACKGROUND_NOISE, AUDIBLE_BREATH>>
    /\ results[1].suggestions = <<txt_retry>>
    /\ results[1].detailed_feedback = txt_clear

\* C16: every result of check_audio_file and batch_check_audio_files, from
\* the JSON path, the heuristic fallback or a failure, has the caller's
\* expected word as expected_word, whatever the response holds, an
\* expected_word member of the response object included.
C16_ExpectedWordIsCallers ==
    \A i \in 1..Len(results) : results[i].expected_word = ItemWord(i)

\* The caller asked for "duona" and the response object names "namas" as
\* its expected_word: the result still says "duona".
C16_Witness ==
    /\ Len(responses) = 1
    /\ DecodesObject(1)
    /\ ~Absent(1, s_expected_word)
    /\ ObjectValue(ResponseText(1), s_expected_word).s = word_namas
    /\ ItemWord(1) = word_duona
    /\ Len(results) = 1
    /\ raised[1] = NoExc
    /\ results[1].expected_word = word_duona

\* The identifier the claim gives a word: trimmed, lowercased, each space an
\* underscore, every character but a-z, the Lithuanian letters, '-' and '_'
\* removed.
Identifier(w) ==
    LET spaced == replace(lower(str_strip(w)), " ", "_")
    IN  SelectSeq(spaced, LAMBDA c : c \in AllowedChars)

IsInvalid(w) == Identifier(w) = <<>> \/ Len(Identifier(w)) > 100

\* C20: each of the three sanitizers maps a word to its identifier, and
\* returns its invalid marker ("" or None) exactly when the identifier is
\* empty or longer than 100 characters.
C20_SanitizersGiveTheIdentifier ==
    sanitized # None =>
        /\ sanitized[1].audio_utils
              = (IF IsInvalid(given_word) THEN <<>> ELSE Identifier(given_word))
        /\ sanitized[1].outetts
              = (IF IsInvalid(given_word) THEN <<>> ELSE Identifier(given_word))
        /\ sanitized[1].gen_audio
              = (IF IsInvalid(given_word) THEN None ELSE Some(Identifier(given_word)))

\* Call k of the run derived an output path (its word has an identifier).
HasPath(k) == calls[k].path[2] # <<>>

\* The files in place when call k starts: those found at the start and
\* those the earlier calls wrote.
InPlaceBefore(k) ==
    DOMAIN disk0 \cup {calls[j].path : j \in {h \in 1..(k - 1) : calls[h].wrote}}

\* The last call up to now for the path of call k that got content back.
LastReturnFor(k) ==
    CHOOSE j \in 1..Len(calls) :
        /\ calls[j].path = calls[k].path
        /\ calls[j].returned # None
        /\ \A h \in (j + 1)..Len(calls) :
              calls[h].path = calls[k].path => calls[h].returned = None

\* C17: in the OpenAI generation script, with force unset a file already at
\* the derived output path is never written or modified, no synthesis
\* request is issued for it, and the call reports success; with force set
\* the request is issued and the file is replaced by the returned bytes.
C17_ExistingFileKeptUnlessForced ==
    gen_pc \in {"loop", "exit"} =>
        /\ ~args.force =>
              /\ \A p \in DOMAIN disk0 : Exists(disk, p) /\ disk[p] = disk0[p]
              /\ \A k \in 1..Len(calls) :
                    (HasPath(k) /\ calls[k].path \in InPlaceBefore(k)) =>
                        /\ ~calls[k].requested
                        /\ ~calls[k].wrote
                        /\ calls[k].ok
        /\ args.force =>
              \A k \in 1..Len(calls) :
                  (HasPath(k) /\ calls[k].path \in InPlaceBefore(k)) =>
                      /\ calls[k].requested
                      /\ calls[k].returned # None =>
                            /\ Exists(disk, calls[k].path)
                            /\ disk[calls[k].path] = calls[LastReturnFor(k)].returned[1]

\* A run without force over "duona" twice, with no file in place: the first
\* call wrote the file, the second found it, sent no request and reported
\* success, and the file still holds what the first call wrote.
C17_Witness ==
    /\ gen_pc = "exit"
    /\ ~args.force
    /\ disk0 = <<>>
    /\ Len(calls) = 2
    /\ calls[1].wrote
    /\ calls[2].path = calls[1].path
    /\ ~calls[2].requested
    /\ calls[2].ok
    /\ disk[calls[1].path] = calls[1].returned[1]

\* Every (word, voice) pair of the run was attempted, in the order of the
\* loops.
AttemptedAllPairs ==
    LET nv == Len(VoicesToUse(args))
    IN  /\ Len(calls) = Len(RunWords(args)) * nv
        /\ \A k \in 1..Len(calls) :
              /\ calls[k].word = RunWords(args)[((k - 1) \div nv) + 1]
              /\ calls[k].voice = VoicesToUse(args)[((k - 1) % nv) + 1]

\* A call that skipped an existing file reported success.
SkipsSucceed ==
    \A k \in 1..Len(calls) :
        (HasPath(k) /\ calls[k].path \in InPlaceBefore(k) /\ ~args.force) => calls[k].ok

SomePairFailed == \E k \in 1..Len(calls) : ~calls[k].ok

\* C19 as stated: every pair of the run is attempted, a skipped existing
\* file counts as a success, and the exit status is non-zero if and only
\* if an attempted pair failed.
C19_Original_NonZeroOnlyForFailedPair ==
    gen_pc = "exit" =>
        /\ AttemptedAllPairs
        /\ SkipsSucceed
        /\ (exit_status # Some(0)) <=> SomePairFailed

\* C19: a run that has an API key and at least one word attempts every
\* (word, voice) pair whatever failed before, counts a skipped existing
\* file as a success, and exits with a non-zero status if and only if an
\* attempted pair failed; a run without key or without words exits with
\* status 1 and attempts nothing.
C19_ExitStatusTellsFailedPair ==
    gen_pc = "exit" =>
        IF args.api_key /\ RunWords(args) # <<>>
        THEN /\ AttemptedAllPairs
             /\ SkipsSucceed
             /\ (exit_status # Some(0)) <=> SomePairFailed
        ELSE exit_status = Some(1) /\ calls = <<>>

\* A run in which a pair failed, a later pair was generated and a third
\* was skipped for its existing file: the status is 1.
C19_Witness ==
    /\ gen_pc = "exit"
    /\ exit_status = Some(1)
    /\ \E j, k, h \in 1..Len(calls) :
          /\ j < k
          /\ ~calls[j].ok
          /\ calls[k].wrote
          /\ calls[h].ok /\ ~calls[h].requested

\* C18: in the batch modes of the OuteTTS script, with force unset, no
\* audio file that was there before the run, intermediate WAV or file in
\* the target format, is regenerated or overwritten by the generation
\* step, whichever the target format.
C18_BatchKeepsExistingAudio ==
    (gen_pc \in {"loop", "exit"} /\ ~args.force) =>
        \A p \in DOMAIN disk0 :
            /\ Exists(disk, p)
            /\ disk[p] = disk0[p]
            /\ \A k \in 1..Len(calls) : calls[k].wrote => calls[k].path # p

C22_CallsLeaveLocalStateUnchanged ==
    [][/\ checker' = checker
       /\ fs' = fs
       /\ audio_files' = audio_files
       /\ Len(results') >= Len(results)
       /\ SubSeq(results', 1, Len(results)) = results]_vars

\* A returned batch whose first item was analysed and whose second item
\* failed in the remote call, with the checker and the files in place.
C22_Witness ==
    /\ pc = "done"
    /\ checker \in Checkers
    /\ Len(results) = 2
    /\ raised[1] = NoExc
    /\ results[1].is_word_correct
    /\ FailedAfterRequest(2)
    /\ fs[ItemPath(1)].exists

FailedOrWrongWithoutIssue ==
    {i \in 1..Len(results) :
        ~results[i].is_word_correct /\ results[i].detected_issues = <<>>}

\* C24: for a non-empty result list, files_with_issues is the number of
\* results with at least one detected issue and clean_files the number of
\* results with no detected issue and a correct word; so clean_files <=
\* correct_words <= total_files, files_with_issues + clean_files <=
\* total_files, and the results left over are those neither correct nor
\* with an issue, among them every synthetic failure result.
C24_IssueAndCleanCounts ==
    (pc = "summarized" /\ results # <<>>) =>
        LET s == summary[1]
            with_issue == {i \in 1..Len(results) : Len(results[i].detected_issues) >= 1}
            clean == {i \in 1..Len(results) :
                         Len(results[i].detected_issues) = 0 /\ results[i].is_word_correct}
        IN  /\ s.files_with_issues = Cardinality(with_issue)
            /\ s.clean_files = Cardinality(clean)
            /\ s.clean_files <= s.correct_words
            /\ s.correct_words <= s.total_files
            /\ s.files_with_issues + s.clean_files <= s.total_files
            /\ s.total_files - s.files_with_issues - s.clean_files
                  = Cardinality(FailedOrWrongWithoutIssue)
            /\ \A i \in 1..Len(results) :
                  results[i] = ErrorResult(results[i].expected_word,
                                           Exc("FileNotFoundError", msg_not_found \o path_a))
                  => i \in FailedOrWrongWithoutIssue

\* A summary of a synthetic failure result, a clean result and a correct
\* result with an issue: one file with issues, one clean file, of three.
C24_Witness ==
    /\ pc = "summarized"
    /\ Len(results) = 3
    /\ \E i \in FailedOrWrongWithoutIssue :
          StartsWith(results[i].detailed_feedback, msg_error_analyzing_file)
    /\ summary[1].files_with_issues = 1
    /\ summary[1].clean_files = 1
    /\ summary[1].correct_words = 2

\* C25: a user interrupt raised at any point of a generation run is caught
\* at the top level of the script and ends the run cleanly: the loops stand
\* where they stood and no further generation call is made, every file the
\* run wrote is still there, and the process ends without an unhandled
\* error, with the status of a normal end.
C25_InterruptEndsRunCleanly ==
    interrupt # None =>
        LET at == interrupt[1]
        IN  /\ at.caught
            /\ word_i = at.word_i
            /\ voice_i = at.voice_i
            /\ Len(calls) = at.calls
            /\ \A k \in 1..Len(calls) : calls[k].wrote => Exists(disk, calls[k].path)
            /\ exit_status \in {None, Some(0)}

\* C26: in the batch mode of the OuteTTS script a failed entry (invalid
\* entry, generation error) does not stop the entries after it, and the
\* exit status of the process is non-zero whenever success_count is smaller
\* than total_count, the number of entries.
C26_BatchGoesOnAndStatusTellsFailure ==
    (args.mode = "lithuanian_batch" /\ exit_status # None) =>
        /\ word_i = Len(args.lines) + 1
        /\ success_count < Len(args.lines) => exit_status[1] # 0

\* The word of call k has no valid identifier for the script that runs.
InvalidCall(k) == SanitizedWord(args.prog, calls[k].word) = <<>>

C28_FailedRequestLeavesFile ==
    [][Len(calls') = Len(calls) + 1 =>
          LET c == calls'[Len(calls')]
          IN  /\ (c.requested /\ c.returned = None) =>
                    /\ ~c.ok
                    /\ disk' = disk
                    /\ Exists(disk', c.path) <=> c.existed
                    /\ c.existed => (args.force /\ disk'[c.path] = disk[c.path])
              /\ c.ok => Exists(disk', c.path)]_vars

\* A run with force whose request for a word with an old file failed, the
\* old bytes still in place, and whose request for another word succeeded.
C28_Witness ==
    /\ args.force
    /\ \E k \in 1..Len(calls) :
          /\ calls[k].existed
          /\ calls[k].requested
          /\ calls[k].returned = None
          /\ ~calls[k].ok
          /\ calls[k].path \in DOMAIN disk0
          /\ disk[calls[k].path] = disk0[calls[k].path]
    /\ \E k \in 1..Len(calls) : calls[k].ok /\ calls[k].wrote

\* C29: for every input path, target format, quality and delete_original
\* flag: when convert_audio returns a path, a file exists at that path, and
\* the input file is gone only if delete_original was set; when it returns
\* None, the input file, if it existed, is still there with its content.
C29_ConversionKeepsOrReplacesInput ==
    gen_pc = "returned" =>
        LET returned == calls[1].returned
            input_path == args.input_path
        IN  /\ returned # None =>
                  /\ Exists(disk, returned[1])
                  /\ (Exists(disk0, input_path) /\ ~Exists(disk, input_path))
                        => args.delete_original
            /\ returned = None =>
                  (Exists(disk0, input_path) =>
                      /\ Exists(disk, input_path)
                      /\ disk[input_path] = disk0[input_path])

\* The entries of the flat list whose English word is w.
EntriesOf(w) ==
    LET flat_words == get_all_word_pairs_flat(all_words)
    IN  {i \in 1..Len(flat_words) : flat_words[i].english = w}

\* The distinct Lithuanian translations the tables give w.
TranslationsOf(w) ==
    {get_all_word_pairs_flat(all_words)[i].lithuanian : i \in EntriesOf(w)}

\* C30: for any word tables, exact_duplicates holds each English word that
\* occurs in two or more entries exactly once and no other word; the keys of
\* semantic_duplicates are exactly the English words with two or more
\* distinct Lithuanian translations, and the value of a key is the list of
\* all the distinct translations of that word, none of them twice.
C30_DuplicatesFound ==
    duplicates # None =>
        LET exact    == duplicates[1].exact_duplicates
            semantic == duplicates[1].semantic_duplicates
            english_words == {p.english : p \in WordPairs}
        IN  /\ \A w \in english_words :
                  Count(exact, w) = (IF Cardinality(EntriesOf(w)) >= 2 THEN 1 ELSE 0)
            /\ \A i \in 1..Len(exact) : exact[i] \in english_words
            /\ DOMAIN semantic =
                  {w \in english_words : Cardinality(TranslationsOf(w)) >= 2}
            /\ \A w \in DOMAIN semantic :
                  /\ {semantic[w][i] : i \in 1..Len(semantic[w])} = TranslationsOf(w)
                  /\ Len(semantic[w]) = Cardinality(TranslationsOf(w))

\* "bank" in four entries of two corpora with three translations, one of
\* them twice: it is once in exact_duplicates, and semantic_duplicates
\* gives it its three translations.
C30_Witness ==
    /\ duplicates # None
    /\ Cardinality(EntriesOf("bank")) = 4
    /\ all_words[1].groups[1].word_pairs # <<>>
    /\ all_words[2].groups[1].word_pairs # <<>>
    /\ duplicates[1].exact_duplicates = <<"bank">>
    /\ DOMAIN duplicates[1].semantic_duplicates = {"bank"}
    /\ Len(duplicates[1].semantic_duplicates["bank"]) = 3
====
